---- MODULE Spec2Model ----
(***************************************************************************)
(* State-machine model of the pyverifactu record model: the Pydantic       *)
(* models InvoiceIdentifier, BreakdownDetails, Record, RegistrationRecord  *)
(* and CancellationRecord, their validators, the fingerprint               *)
(* (calculate_hash) and the operations a caller performs on them           *)
(* (construction, validated assignment, sealing, validate()).              *)
(*                                                                         *)
(* Conventions.                                                            *)
(*  - Optional[X] is a sequence of length at most one: None is <<>>,       *)
(*    a present value x is <<x>>.                                          *)
(*  - A decimal amount string "-12.34" is [neg, mag, wf]: the leading      *)
(*    minus sign, the magnitude in cents and whether the string matches    *)
(*    the amount regex.  "-0.00" and "0.00" are different strings.         *)
(*  - A tax rate string "21.00" is [mag, wf] with mag in hundredths of a   *)
(*    percent.                                                             *)
(*  - A hex string is a tuple: <<>> is the empty string, <<"sha256", p>>   *)
(*    the upper-case SHA-256 digest of payload p (SHA-256 is taken to be   *)
(*    collision free: different payloads, different digests),              *)
(*    <<"hex", t>> some other 64-digit upper-case hex string and           *)
(*    <<"str", t>> a string that is not 64 upper-case hex digits.          *)
(*  - Binary floating point is modelled exactly where its result is        *)
(*    determined by the decimal value (bounded amounts), and as a set of   *)
(*    possible outcomes where the result depends on representation error   *)
(*    (a value exactly on a half cent, the sign of a computed zero).       *)
(***************************************************************************)
EXTENDS Integers, Sequences, FiniteSets, TLC

VARIABLES
    rec,      \* Optional record object held by the caller
    line,     \* Optional BreakdownDetails object held by the caller
    last,     \* the last call made and its outcome
    now,      \* host clock: the part of the year the current time lies in
    chain,    \* the caller's list of sealed records, oldest first
    reply,    \* Optional decoded response returned by the last service call
    posts,    \* number of HTTP POSTs the last service call performed
    clients,  \* per AeatClient object: its state, or torn down
    files,    \* temporary PEM files present on disk
    wire      \* Optional XML document the last call built

service == <<reply, posts, clients, files, wire>>

vars == <<rec, line, last, now, chain, reply, posts, clients, files, wire>>

(***************************************************************************)
(* Optional values                                                         *)
(***************************************************************************)
None == <<>>
Some(x) == <<x>>
Val(o) == o[1]

Abs(n) == IF n < 0 THEN -n ELSE n

RECURSIVE SumSeq(_)
SumSeq(s) == IF s = <<>> THEN 0 ELSE Head(s) + SumSeq(Tail(s))

(***************************************************************************)
(* Bounds of the model                                                     *)
(***************************************************************************)
MaxLines == 2          \* longest breakdown built in the totals family
MaxChain == 2          \* longest chain of sealed records
MaxBase == 30          \* largest base amount of a line, in cents
TaxSpan == 3           \* tax amounts tried around base * rate / 100, in cents

(***************************************************************************)
(* Amount and rate strings                                                 *)
(***************************************************************************)
Amt(c) == [neg |-> c < 0, mag |-> Abs(c), wf |-> TRUE]
NegZero == [neg |-> TRUE, mag |-> 0, wf |-> TRUE]
BadAmt == [neg |-> FALSE, mag |-> 0, wf |-> FALSE]
Rate(h) == [mag |-> h, wf |-> TRUE]

\* float(s) of an amount string, in cents (float("-0.00") is -0.0, value 0)
Cents(a) == IF a.neg THEN -a.mag ELSE a.mag

(***************************************************************************)
(* Host time zone (module time) and clock                                  *)
(***************************************************************************)
time_daylight == 1
time_timezone == -3600
time_altzone == -7200

Seasons == {"winter", "summer"}

\* time.localtime().tm_isdst at the moment of the call
tm_isdst(clock) == IF clock = "summer" THEN 1 ELSE 0

\* UTC offset of local time, in seconds, at an instant lying in `season`
LocalOffsetAt(season) ==
    IF time_daylight # 0 /\ season = "summer" THEN -time_altzone ELSE -time_timezone

(***************************************************************************)
(* Fingerprint                                                             *)
(***************************************************************************)
sha256(payload) == <<"sha256", payload>>
EmptyStr == <<>>

\* datetime.strftime('%d-%m-%Y'): the calendar day, the time of day is dropped
FormatDate(d) == d.day

\* the offset attached to a naive hashed_at, else the zone's own offset
OffsetSeconds(dt, clock) ==
    IF dt.tzinfo = None
    THEN IF time_daylight # 0 /\ tm_isdst(clock) # 0
         THEN -time_altzone
         ELSE -time_timezone
    ELSE Val(dt.tzinfo)

\* dt.strftime('%Y-%m-%dT%H:%M:%S') followed by the offset as +HH:MM
TimestampString(dt, clock) ==
    LET total_seconds == OffsetSeconds(dt, clock)
        hours == Abs(total_seconds) \div 3600
        remainder == Abs(total_seconds) % 3600
        minutes == remainder \div 60
        sign == IF total_seconds >= 0 THEN "+" ELSE "-"
    IN  <<dt.date, dt.sec, sign, hours, minutes>>

\* `self.previous_hash or ''`
OrEmpty(h) == IF h = None THEN EmptyStr ELSE Val(h)

\* a payload that also carries the external reference
RegistrationPayload_WithRefExterna(r, dt_str) ==
    << "IDEmisorFactura", r.invoice_id.issuer_id,
       "NumSerieFactura", r.invoice_id.invoice_number,
       "FechaExpedicionFactura", FormatDate(r.invoice_id.issue_date),
       "TipoFactura", r.invoice_type,
       "CuotaTotal", r.total_tax_amount,
       "ImporteTotal", r.total_amount,
       "Huella", OrEmpty(r.previous_hash),
       "FechaHoraHusoGenRegistro", dt_str,
       "RefExterna", r.external_reference >>
RegistrationPayload(r, dt_str) ==
    << "IDEmisorFactura", r.invoice_id.issuer_id,
       "NumSerieFactura", r.invoice_id.invoice_number,
       "FechaExpedicionFactura", FormatDate(r.invoice_id.issue_date),
       "TipoFactura", r.invoice_type,
       "CuotaTotal", r.total_tax_amount,
       "ImporteTotal", r.total_amount,
       "Huella", OrEmpty(r.previous_hash),
       "FechaHoraHusoGenRegistro", dt_str >>

\* a payload that leaves the previous fingerprint out
CancellationPayload_NoHuella(r, dt_str) ==
    << "IDEmisorFacturaAnulada", r.invoice_id.issuer_id,
       "NumSerieFacturaAnulada", r.invoice_id.invoice_number,
       "FechaExpedicionFacturaAnulada", FormatDate(r.invoice_id.issue_date),
       "FechaHoraHusoGenRegistro", dt_str >>
CancellationPayload(r, dt_str) ==
    << "IDEmisorFacturaAnulada", r.invoice_id.issuer_id,
       "NumSerieFacturaAnulada", r.invoice_id.invoice_number,
       "FechaExpedicionFacturaAnulada", FormatDate(r.invoice_id.issue_date),
       "Huella", OrEmpty(r.previous_hash),
       "FechaHoraHusoGenRegistro", dt_str >>

IsRegistration(r) == r.variant = "RegistrationRecord"
IsCancellation(r) == r.variant = "CancellationRecord"

calculate_hash(r, clock) ==
    IF IsRegistration(r)
    THEN sha256(RegistrationPayload(r, TimestampString(r.hashed_at, clock)))
    ELSE sha256(CancellationPayload(r, TimestampString(r.hashed_at, clock)))

(***************************************************************************)
(* Validation outcomes.  A validator yields the set of outcomes it can     *)
(* produce: {"ok"}, {<error>} or, where floating point decides, both.      *)
(***************************************************************************)
Ok == {"ok"}
Check(cond, err) == IF cond THEN Ok ELSE {err}
\* run `first`; only if it passes run `rest`
Then(first, rest) == (first \ Ok) \cup (IF "ok" \in first THEN rest ELSE {})

(***************************************************************************)
(* BreakdownDetails                                                        *)
(***************************************************************************)
OperationTypes == {"S1", "S2", "N1", "N2", "E1", "E2", "E3", "E4", "E5", "E6"}

is_subject(op) == op \in {"S1", "S2"}

Tolerances == <<0, -1, 1, -2, 2>>

\* f"{x:.2f}" of a float whose decimal value is q / 10000 cents, where the
\* float was computed from the product p / 10000 cents plus a tolerance:
\* the strings the formatting can give
FormatProduct(q, p) ==
    LET lo == q \div 10000
        rem == q % 10000
        nearest == IF rem < 5000 THEN {lo}
                   ELSE IF rem > 5000 THEN {lo + 1}
                   ELSE {lo, lo + 1}
        zero == IF q < 0 THEN {NegZero}
                ELSE IF q > 0 \/ p = 0 THEN {Amt(0)}
                ELSE {Amt(0), NegZero}
    IN  UNION {IF n = 0 THEN zero ELSE {Amt(n)} : n \in nearest}

\* best_tax_amount = float(base_amount) * (float(tax_rate) / 100),
\* in units of 1/10000 cent
BestTaxAmount(l) == Cents(l.base_amount) * Val(l.tax_rate).mag

validate_base_amount(v) == Check(v.wf, "base_amount must match format")
validate_tax_rate(v) == Check(v = None \/ Val(v).wf, "tax_rate must match format")
validate_tax_amount_format(v) ==
    Check(v = None \/ Val(v).wf, "tax_amount must match format")

\* rules that look at the tax rate only
validate_operation_type_rules_RateOnly(l) ==
    IF is_subject(l.operation_type)
    THEN Check(l.tax_rate # None, "Tax rate must be defined for subject operation types")
    ELSE Check(l.tax_rate = None,
               "Tax rate cannot be defined for non-subject or exempt operation types")
validate_operation_type_rules(l) ==
    IF is_subject(l.operation_type)
    THEN Then(Check(l.tax_rate # None,
                    "Tax rate must be defined for subject operation types"),
              Check(l.tax_amount # None,
                    "Tax amount must be defined for subject operation types"))
    ELSE Then(Check(l.tax_rate = None,
                    "Tax rate cannot be defined for non-subject or exempt operation types"),
              Check(l.tax_amount = None,
                    "Tax amount cannot be defined for non-subject or exempt operation types"))

validate_tax_amount_calculation(l) ==
    IF l.tax_rate = None \/ l.tax_amount = None
    THEN Ok
    ELSE LET p == BestTaxAmount(l)
             expected(i) == FormatProduct(p + Tolerances[i] * 10000, p)
             idx == DOMAIN Tolerances
             canMatch == \E i \in idx : Val(l.tax_amount) \in expected(i)
             canMiss == \A i \in idx : \E s \in expected(i) : s # Val(l.tax_amount)
         IN  (IF canMatch THEN Ok ELSE {})
             \cup (IF canMiss THEN {"Expected tax amount"} ELSE {})

\* field validators of every field, then the model validators in order
ValidateLine(l) ==
    LET fields == Then(Check(l.operation_type \in OperationTypes,
                             "operation_type: invalid enumeration value"),
                  Then(validate_base_amount(l.base_amount),
                  Then(validate_tax_rate(l.tax_rate),
                       validate_tax_amount_format(l.tax_amount))))
    IN  Then(fields,
        Then(validate_operation_type_rules(l),
             validate_tax_amount_calculation(l)))

(***************************************************************************)
(* Record (fields shared by both variants)                                 *)
(***************************************************************************)
\* a text value: the string, its length and whether it is empty or only
\* white space
Text(str, n) == [s |-> str, len |-> n, blank |-> FALSE]

\* re.match(r"^[0-9A-F]{64}$", v)
IsHex64(h) == h # EmptyStr /\ h[1] \in {"sha256", "hex"}

validate_previous_hash_format(v) ==
    Check(v = None \/ IsHex64(Val(v)),
          "previous_hash must be 64 uppercase hexadecimal characters")

validate_hash_format(v) ==
    Check(v = EmptyStr \/ IsHex64(v), "hash must be 64 uppercase hexadecimal characters")

validate_previous_rejection(v) ==
    Check(v = None \/ Val(v) \in {"S", "N", "X"}, "previous_rejection must be 'S', 'N', or 'X'")

validate_correction(v) ==
    Check(v = None \/ Val(v) \in {"S", "N"}, "correction must be 'S' or 'N'")

validate_external_reference(v) ==
    Check(v = None \/ Val(v).len <= 60, "external_reference: string too long")

\* a validator that forgets to compare the hash
validate_hash_value_Skipped(r, clock) == Ok
validate_hash_value(r, clock) ==
    IF r.hash # EmptyStr
    THEN Check(r.hash = calculate_hash(r, clock), "Invalid hash")
    ELSE Ok

validate_previous_invoice_consistency(r) ==
    IF r.previous_invoice_id # None /\ r.previous_hash = None
    THEN {"Previous hash is required if previous invoice ID is provided"}
    ELSE IF r.previous_hash # None /\ r.previous_invoice_id = None
    THEN {"Previous invoice ID is required if previous hash is provided"}
    ELSE Ok

\* a validator that forgets that correction S excludes previous_rejection N
validate_correction_fields_NoThirdRule(r) ==
    Then(Check(~(r.previous_rejection = Some("X") /\ r.correction # Some("S")),
               "previous_rejection can only be X if correction is S"),
         Check(~(r.correction = Some("N")
                 /\ r.previous_rejection \in {Some("S"), Some("X")}),
               "correction cannot be N if previous_rejection is S or X"))
validate_correction_fields(r) ==
    Then(Check(~(r.previous_rejection = Some("X") /\ r.correction # Some("S")),
               "previous_rejection can only be X if correction is S"),
    Then(Check(~(r.correction = Some("N")
                 /\ r.previous_rejection \in {Some("S"), Some("X")}),
               "correction cannot be N if previous_rejection is S or X"),
         Check(~(r.correction = Some("S") /\ r.previous_rejection = Some("N")),
               "correction can only be S if previous_rejection is S or X")))

\* field validators of the fields declared in Record, in declaration order
RecordFieldErrors(r) ==
    Then(validate_previous_hash_format(r.previous_hash),
    Then(validate_hash_format(r.hash),
    Then(validate_previous_rejection(r.previous_rejection),
    Then(validate_correction(r.correction),
         validate_external_reference(r.external_reference)))))

\* model validators declared in Record, in declaration order
RecordModelErrors(r, clock) ==
    Then(validate_hash_value(r, clock),
    Then(validate_previous_invoice_consistency(r),
         validate_correction_fields(r)))

(***************************************************************************)
(* CancellationRecord                                                      *)
(***************************************************************************)
\* a validator that waives the previous pair when without_prior_record is set
validate_enforce_previous_invoice_Waived(r) ==
    IF r.without_prior_record
    THEN Ok
    ELSE Then(Check(r.previous_invoice_id # None,
                    "Previous invoice ID is required for all cancellation records"),
              Check(r.previous_hash # None,
                    "Previous hash is required for all cancellation records"))
validate_enforce_previous_invoice(r) ==
    Then(Check(r.previous_invoice_id # None,
               "Previous invoice ID is required for all cancellation records"),
         Check(r.previous_hash # None,
               "Previous hash is required for all cancellation records"))

(***************************************************************************)
(* RegistrationRecord                                                      *)
(***************************************************************************)
InvoiceTypes == {"F1", "F2", "F3", "R1", "R2", "R3", "R4", "R5"}
CorrectiveTypes == {"S", "I"}

validate_not_blank(v) == Check(~v.blank, "Field cannot be blank")

\* a format without the optional leading minus sign
validate_amount_format_Unsigned(v) == Check(v.wf /\ ~v.neg, "Amount must match format")
validate_amount_format(v) == Check(v.wf, "Amount must match format")

validate_corrected_amount_format(v) ==
    Check(v = None \/ Val(v).wf, "Amount must match format")

\* f"{x:.2f}" of a float sum of amounts whose decimal value is c cents;
\* `exact` says that the float sum carries no representation error
FormatSum(c, exact) ==
    IF c # 0 THEN {Amt(c)}
    ELSE IF exact THEN {Amt(0)}
    ELSE {Amt(0), NegZero}

validate_totals(r) ==
    IF r.breakdown = <<>>
       \/ \E i \in DOMAIN r.breakdown : r.breakdown[i].tax_amount = None
    THEN Ok
    ELSE LET n == Len(r.breakdown)
             taxes == [i \in 1..n |-> Cents(Val(r.breakdown[i].tax_amount))]
             bases == [i \in 1..n |-> Cents(r.breakdown[i].base_amount)]
             expected_total_tax_amount == SumSeq(taxes)
             total_base_amount == SumSeq(bases)
             nonzero == Cardinality({i \in 1..n : taxes[i] # 0})
                        + Cardinality({i \in 1..n : bases[i] # 0})
             expected_str ==
                 FormatSum(expected_total_tax_amount,
                           n <= 2 \/ \A i \in 1..n : taxes[i] = 0)
             best_total_amount == total_base_amount + expected_total_tax_amount
             expected(i) ==
                 FormatSum(best_total_amount + Tolerances[i],
                           nonzero <= 1
                           \/ (n <= 2 /\ total_base_amount = 0
                               /\ expected_total_tax_amount = 0))
             idx == DOMAIN Tolerances
             taxMatch == r.total_tax_amount \in expected_str
             taxMiss == \E s \in expected_str : s # r.total_tax_amount
             canMatch == \E i \in idx : r.total_amount \in expected(i)
             canMiss == \A i \in idx : \E s \in expected(i) : s # r.total_amount
         IN  (IF taxMiss THEN {"Expected total tax amount"} ELSE {})
             \cup (IF taxMatch
                   THEN (IF canMiss THEN {"Expected total amount"} ELSE {})
                        \cup (IF canMatch THEN Ok ELSE {})
                   ELSE {})

\* a rule that knows of simplified invoices only, not of R5
validate_recipients_OnlyF2(r) ==
    LET has_recipients == Len(r.recipients) > 0
    IN  IF r.invoice_type = "F2"
        THEN Check(~has_recipients, "This type of invoice cannot have recipients")
        ELSE Check(has_recipients, "This type of invoice requires at least one recipient")
validate_recipients(r) ==
    LET has_recipients == Len(r.recipients) > 0
    IN  IF r.invoice_type \in {"F2", "R5"}
        THEN Check(~has_recipients, "This type of invoice cannot have recipients")
        ELSE Check(has_recipients, "This type of invoice requires at least one recipient")

\* a rule that lets corrected invoices and a stray corrected tax amount pass
validate_corrective_details_Lax(r) ==
    LET is_corrective == r.invoice_type \in {"R1", "R2", "R3", "R4", "R5"}
    IN  Then(Check(~(is_corrective /\ r.corrective_type = None),
                   "Missing type for corrective invoice"),
        Then(Check(~(~is_corrective /\ r.corrective_type # None),
                   "This type of invoice cannot have a corrective type"),
             IF r.corrective_type = Some("S")
             THEN Then(Check(r.corrected_base_amount # None,
                             "Missing corrected base amount for corrective invoice by substitution"),
                       Check(r.corrected_tax_amount # None,
                             "Missing corrected tax amount for corrective invoice by substitution"))
             ELSE Check(r.corrected_base_amount = None,
                        "This invoice cannot have a corrected base amount")))
validate_corrective_details(r) ==
    LET is_corrective == r.invoice_type \in {"R1", "R2", "R3", "R4", "R5"}
    IN  Then(Check(~(is_corrective /\ r.corrective_type = None),
                   "Missing type for corrective invoice"),
        Then(Check(~(~is_corrective /\ r.corrective_type # None),
                   "This type of invoice cannot have a corrective type"),
        Then(Check(~(~is_corrective /\ Len(r.corrected_invoices) > 0),
                   "This type of invoice cannot have corrected invoices"),
             IF r.corrective_type = Some("S")
             THEN Then(Check(r.corrected_base_amount # None,
                             "Missing corrected base amount for corrective invoice by substitution"),
                       Check(r.corrected_tax_amount # None,
                             "Missing corrected tax amount for corrective invoice by substitution"))
             ELSE Then(Check(r.corrected_base_amount = None,
                             "This invoice cannot have a corrected base amount"),
                       Check(r.corrected_tax_amount = None,
                             "This invoice cannot have a corrected tax amount")))))

validate_replaced_invoices(r) ==
    Check(~(r.invoice_type # "F3" /\ Len(r.replaced_invoices) > 0),
          "This type of invoice cannot have replaced invoices")

\* field validators of the fields declared in RegistrationRecord
\* breakdown: List[BreakdownDetails] with min_length=1 and max_length=12
validate_breakdown(v) ==
    Then(Check(Len(v) >= 1, "breakdown: list too short"),
         Check(Len(v) <= 12, "breakdown: list too long"))

\* pydantic validates the values it is given: a field left out takes its
\* default (default_factory=list) and the default is not validated
RegistrationFieldErrorsOf(r, omitted) ==
    Then(Check(r.issuer_name.len <= 120, "issuer_name: string too long"),
    Then(validate_not_blank(r.issuer_name),
    Then(Check(r.invoice_type \in InvoiceTypes, "invoice_type: invalid enumeration value"),
    Then(Check(r.description.len <= 500, "description: string too long"),
    Then(validate_not_blank(r.description),
    Then(Check(Len(r.recipients) <= 1000, "recipients: list too long"),
    Then(Check(r.corrective_type = None \/ Val(r.corrective_type) \in CorrectiveTypes,
               "corrective_type: invalid enumeration value"),
    Then(validate_corrected_amount_format(r.corrected_base_amount),
    Then(validate_corrected_amount_format(r.corrected_tax_amount),
    Then(IF "breakdown" \in omitted THEN Ok ELSE validate_breakdown(r.breakdown),
    Then(validate_amount_format(r.total_tax_amount),
         validate_amount_format(r.total_amount))))))))))))

RegistrationFieldErrors(r) == RegistrationFieldErrorsOf(r, {})

RegistrationModelErrors(r) ==
    Then(validate_totals(r),
    Then(validate_recipients(r),
    Then(validate_corrective_details(r),
         validate_replaced_invoices(r))))

(***************************************************************************)
(* Validation of a whole record: every field validator, then, only when    *)
(* no field failed, the model validators, base class first                 *)
(***************************************************************************)
FieldErrors(r) ==
    Then(RecordFieldErrors(r),
         IF IsRegistration(r) THEN RegistrationFieldErrors(r) ELSE Ok)

ModelErrors(r, clock) ==
    Then(RecordModelErrors(r, clock),
         IF IsRegistration(r)
         THEN RegistrationModelErrors(r)
         ELSE validate_enforce_previous_invoice(r))

Validate(r, clock) == Then(FieldErrors(r), ModelErrors(r, clock))

(***************************************************************************)
(* Operations of the caller                                                *)
(***************************************************************************)
Call(op, field, arg, out) == [op |-> op, field |-> field, arg |-> arg, out |-> out]
NoCall == Call("none", "", None, "ok")

\* BreakdownDetails(**l): the constructor validates, and raises on an error
ConstructLine(l) ==
    /\ \E out \in ValidateLine(l) :
          /\ line' = IF out = "ok" THEN Some(l) ELSE None
          /\ last' = Call("BreakdownDetails", "", l, out)
    /\ UNCHANGED <<rec, now, chain>>
    /\ UNCHANGED service

\* RegistrationRecord(**d) or CancellationRecord(**d)
Construct(d) ==
    /\ \E out \in Validate(d, now) :
          /\ rec' = IF out = "ok" THEN Some(d) ELSE None
          /\ last' = Call("construct", "", d, out)
    /\ UNCHANGED <<line, now, chain>>
    /\ UNCHANGED service

\* RegistrationRecord(**d) called without the field f, which has a default:
\* d carries the default, and the field validators of f do not run
ConstructOmitting(d, f) ==
    /\ IsRegistration(d) /\ f = "breakdown" /\ d.breakdown = <<>>
    /\ \E out \in Then(Then(RecordFieldErrors(d), RegistrationFieldErrorsOf(d, {f})),
                        ModelErrors(d, now)) :
          /\ rec' = IF out = "ok" THEN Some(d) ELSE None
          /\ last' = Call("construct", f, d, out)
    /\ UNCHANGED <<line, now, chain>>
    /\ UNCHANGED service

\* record.<f> = v with validate_assignment: the field validators of f run on
\* v first and a failure leaves the record untouched; the model validators
\* then run on the record that carries the new value, and when one of them
\* raises the record keeps either its old or the new value of f
SetAttr(op, f, v) ==
    /\ rec # None
    /\ f \in DOMAIN Val(rec) \ {"variant"}
    /\ LET new == [Val(rec) EXCEPT ![f] = v]
           fields == FieldErrors(new)
       IN  \E out \in Then(fields, ModelErrors(new, now)) :
             /\ last' = Call(op, f, v, out)
             /\ IF out = "ok" THEN rec' = Some(new)
                ELSE IF out \in fields THEN rec' = rec
                ELSE rec' \in {rec, Some(new)}
    /\ UNCHANGED <<line, now, chain>>
    /\ UNCHANGED service

Assign(f, v) == SetAttr("assign", f, v)

\* record.hash = record.calculate_hash()
Seal ==
    /\ rec # None
    /\ SetAttr("seal", "hash", calculate_hash(Val(rec), now))

\* record.validate(): model_validate(model_dump()) on a copy
ValidateCall ==
    /\ rec # None
    /\ \E out \in Validate(Val(rec), now) :
          last' = Call("validate", "", None, out)
    /\ UNCHANGED <<rec, line, now, chain>>
    /\ UNCHANGED service

\* time passes on the host: daylight saving time starts or ends
Tick ==
    /\ now' \in Seasons \ {now}
    /\ UNCHANGED <<rec, line, last, chain>>
    /\ UNCHANGED service

\* the caller appends its sealed record to the chain and lets go of it
Link ==
    /\ rec # None
    /\ Len(chain) < MaxChain
    /\ Val(rec).hash # EmptyStr
    /\ last.out = "ok"
    /\ chain # <<>> => Val(rec).previous_hash = Some(chain[Len(chain)].hash)
    /\ chain' = Append(chain, Val(rec))
    /\ rec' = None
    /\ last' = Call("link", "", None, "ok")
    /\ UNCHANGED <<line, now>>
    /\ UNCHANGED service

(***************************************************************************)
(* Inputs                                                                  *)
(***************************************************************************)
HexA == <<"hex", "AAAA">>
HexB == <<"hex", "BBBB">>
NotHex == <<"str", "abc">>

Id(issuer, number, day, tod) ==
    [issuer_id |-> issuer, invoice_number |-> number,
     issue_date |-> [day |-> day, tod |-> tod]]
Id0 == Id("A00000000", "PRUEBA-0001", 1, 0)

Stamp(date, sec, micro, tz) == [date |-> date, sec |-> sec, micro |-> micro, tzinfo |-> tz]
T0 == Stamp("winter", 0, 0, None)
TSummer == Stamp("summer", 0, 0, None)
TAware == Stamp("winter", 0, 0, Some(3600))

SubjectLine(base, rate, tax) ==
    [tax_type |-> "01", regime_type |-> "01", operation_type |-> "S1",
     base_amount |-> Amt(base), tax_rate |-> Some(Rate(rate)), tax_amount |-> Some(Amt(tax))]
ExemptLine(base) ==
    [tax_type |-> "01", regime_type |-> "01", operation_type |-> "E1",
     base_amount |-> Amt(base), tax_rate |-> None, tax_amount |-> None]

BaseRegistration ==
    [variant |-> "RegistrationRecord",
     invoice_id |-> Id0, previous_invoice_id |-> None, previous_hash |-> None,
     hash |-> EmptyStr, hashed_at |-> T0,
     previous_rejection |-> None, correction |-> None, external_reference |-> None,
     issuer_name |-> Text("Perico de los Palotes, S.A.", 27),
     invoice_type |-> "F2",
     description |-> Text("Factura simplificada de prueba", 30),
     recipients |-> <<>>, corrective_type |-> None, corrected_invoices |-> <<>>,
     corrected_base_amount |-> None, corrected_tax_amount |-> None,
     replaced_invoices |-> <<>>,
     breakdown |-> <<SubjectLine(1000, 2100, 210)>>,
     total_tax_amount |-> Amt(210), total_amount |-> Amt(1210)]

BaseCancellation ==
    [variant |-> "CancellationRecord",
     invoice_id |-> Id0, previous_invoice_id |-> Some(Id0), previous_hash |-> Some(HexA),
     hash |-> EmptyStr, hashed_at |-> T0,
     previous_rejection |-> None, correction |-> None, external_reference |-> None,
     without_prior_record |-> FALSE]

\* constructor arguments tried in the life cycle of one record
LifecycleInputs ==
    {[b EXCEPT !.previous_invoice_id = pi, !.previous_hash = ph] :
        b \in {BaseRegistration, BaseCancellation},
        pi \in {None, Some(Id0)}, ph \in {None, Some(HexA)}}
    \cup {[BaseCancellation EXCEPT !.hash = HexB]}
    \cup {[BaseCancellation EXCEPT !.without_prior_record = TRUE,
                                    !.previous_invoice_id = pi, !.previous_hash = ph] :
            pi \in {None, Some(Id0)}, ph \in {None, Some(HexA)}}

\* values assigned to the fields of a record
AssignValues(f) ==
    CASE f = "hash" -> {EmptyStr, HexB}
      [] f = "hashed_at" -> {T0, TSummer, TAware}
      [] f = "total_amount" -> {Amt(1210), Amt(1211)}
      [] f = "external_reference" -> {None, Some(Text("REF-001", 7))}
      [] f = "previous_hash" -> {None, Some(HexA)}
      [] OTHER -> {}

AssignedFields ==
    {"hash", "hashed_at", "total_amount", "external_reference", "previous_hash"}

(***************************************************************************)
(* The service client is not involved in the life cycle of a record: no    *)
(* call has been made, no client exists and no temporary file is on disk.  *)
(***************************************************************************)
ClientIds == {1, 2}

\* staged counts the temporary files the client has created so far: each
\* mkstemp call returns a name that no earlier call returned
Unborn ==
    [life |-> "unborn", temp_cert_file |-> None, certificate_path |-> None,
     staged |-> 0]

ServiceIdle ==
    /\ reply = None
    /\ posts = 0
    /\ clients = [c \in ClientIds |-> Unborn]
    /\ files = {}
    /\ wire = None

(***************************************************************************)
(* Spec: the life cycle of one record on a host whose clock advances       *)
(***************************************************************************)
Init ==
    /\ rec = None
    /\ line = None
    /\ last = NoCall
    /\ now \in Seasons
    /\ chain = <<>>
    /\ ServiceIdle

Next ==
    \/ \E d \in LifecycleInputs : Construct(d)
    \/ \E f \in AssignedFields : \E v \in AssignValues(f) : Assign(f, v)
    \/ Seal
    \/ ValidateCall
    \/ Tick

Spec == Init /\ [][Next]_vars

(***************************************************************************)
(* Properties of the life cycle                                            *)
(***************************************************************************)
\* the fingerprint is stored and equals the one recomputed now
Sealed(r, clock) == r.hash # EmptyStr /\ r.hash = calculate_hash(r, clock)

\* the step is a call of record.<f> = v made by Assign
AssignStep == last'.op = "assign" /\ now' = now /\ chain' = chain

\* C1: in every state reached by construction and successful assignments
\* the hash is empty or equals the fingerprint recomputed from the record's
\* current fields, and a non-empty hash that differs from the recomputed
\* fingerprint is rejected at construction and at assignment.
C1_HashIsEmptyOrFingerprint ==
    /\ (rec # None /\ last.out = "ok") =>
          (Val(rec).hash = EmptyStr \/ Val(rec).hash = calculate_hash(Val(rec), now))
    /\ (last.op = "construct" /\ last.arg.hash # EmptyStr /\ last.out = "ok") =>
          Val(rec).hash = calculate_hash(last.arg, now)

\* C4: the offset hashed for a zone-less hashed_at is the local offset in
\* force at the hashed_at instant, and a zone's own offset otherwise.
TimestampStringAtInstant(dt) ==
    LET total_seconds == IF dt.tzinfo = None THEN LocalOffsetAt(dt.date) ELSE Val(dt.tzinfo)
    IN  <<dt.date, dt.sec, IF total_seconds >= 0 THEN "+" ELSE "-",
          Abs(total_seconds) \div 3600, (Abs(total_seconds) % 3600) \div 60>>

C4_OffsetInForceAtHashedAt ==
    (last.op = "seal" /\ last.out = "ok") =>
        last.arg = sha256(IF IsRegistration(Val(rec))
                          THEN RegistrationPayload(Val(rec),
                                   TimestampStringAtInstant(Val(rec).hashed_at))
                          ELSE CancellationPayload(Val(rec),
                                   TimestampStringAtInstant(Val(rec).hashed_at)))

C7_PreviousPair ==
    (rec # None /\ last.out = "ok") =>
        LET r == Val(rec)
        IN  /\ (r.previous_invoice_id = None) <=> (r.previous_hash = None)
            /\ IsCancellation(r) => (r.previous_invoice_id # None /\ r.previous_hash # None)

C7_Witness ==
    /\ rec # None /\ last.op = "construct" /\ last.out = "ok"
    /\ IsCancellation(Val(rec)) /\ Val(rec).without_prior_record
    /\ Val(rec).previous_invoice_id # None /\ Val(rec).previous_hash # None

(***************************************************************************)
(* SpecLine: construction of breakdown lines                               *)
(***************************************************************************)
LineOps == OperationTypes
LineRates == {0, 1000, 2100}

LineBases == {Amt(c) : c \in -MaxBase..MaxBase} \cup {NegZero}

\* tax amounts tried for a base and a rate: none, and those around the product
TaxTried(base, rate) ==
    IF rate = None
    THEN {None, Some(Amt(0))}
    ELSE LET lo == (Cents(base) * Val(rate).mag) \div 10000
         IN  {None, Some(NegZero)}
             \cup {Some(Amt(t)) : t \in (lo - TaxSpan)..(lo + 1 + TaxSpan)}

LineInputs ==
    UNION {UNION {{[tax_type |-> "01", regime_type |-> "01", operation_type |-> op,
                    base_amount |-> base, tax_rate |-> rate, tax_amount |-> tax] :
                      op \in LineOps, tax \in TaxTried(base, rate)} :
                 rate \in {None} \cup {Some(Rate(h)) : h \in LineRates}} :
           base \in LineBases}

\* the caller has the arguments of one constructor call at hand
InitLine ==
    /\ rec = None
    /\ line = None
    /\ \E l \in LineInputs : last = Call("args", "", l, "ok")
    /\ now = "winter"
    /\ chain = <<>>
    /\ ServiceIdle

NextLine == last.op = "args" /\ ConstructLine(last.arg)

SpecLine == InitLine /\ [][NextLine]_vars

\* the last call built a subject line that carries base, rate and tax amount
TaxChecked ==
    /\ last.op = "BreakdownDetails"
    /\ is_subject(last.arg.operation_type)
    /\ last.arg.tax_rate # None /\ last.arg.tax_amount # None

\* C8 as stated: a line is accepted iff its tax amount differs from
\* base x rate / 100 by at most 0.02, over amounts in integer cents.
C8_WithinTwoCentsOfProduct ==
    (TaxChecked /\ last.arg.base_amount # NegZero /\ Val(last.arg.tax_amount) # NegZero) =>
        (last.out = "ok" <=>
            Abs(Cents(Val(last.arg.tax_amount)) * 10000 - BestTaxAmount(last.arg)) <= 20000)

\* What validate_tax_amount_calculation decides: the tax amount is compared
\* with the product rounded to the cent.  An accepted tax amount lies within 0.025 of base x rate / 100;
\* when the product is not exactly on a half cent a line is accepted iff
\* its tax amount differs from the rounded product by at most 0.02, a zero
\* being spelt "-0.00" when product plus tolerance is negative; rate 0.00
\* is accepted with tax amount 0.00.
TaxAmountDecision ==
    TaxChecked =>
        LET p == BestTaxAmount(last.arg)
            tax == Val(last.arg.tax_amount)
            rounded == (p + 5000) \div 10000
            residue == p - rounded * 10000
            spelt == IF tax.mag # 0 THEN TRUE
                     ELSE IF residue < 0 THEN tax.neg
                     ELSE ~tax.neg
        IN  /\ last.out = "ok" => Abs(Cents(tax) * 10000 - p) <= 25000
            /\ (p % 10000 # 5000 /\ ~(tax.mag = 0 /\ residue = 0 /\ p # 0)) =>
                  (last.out = "ok" <=> (Abs(Cents(tax) - rounded) <= 2 /\ spelt))
            /\ (Val(last.arg.tax_rate).mag = 0 /\ tax = Amt(0)) => last.out = "ok"

(***************************************************************************)
(* SpecCtor: construction of records                                       *)
(***************************************************************************)
Id1 == Id("A00000000", "PRUEBA-0000", 1, 0)

Markers == {None, Some("S"), Some("N"), Some("X")}

\* every correction marker with every previous-rejection marker
MarkerInputs ==
    {[b EXCEPT !.correction = c, !.previous_rejection = pr] :
        b \in {BaseRegistration, BaseCancellation},
        c \in Markers \ {Some("X")}, pr \in Markers}

\* lines a breakdown is made of, each one accepted by BreakdownDetails
LinePool ==
    {SubjectLine(1000, 2100, 210), SubjectLine(1234, 2100, 259),
     SubjectLine(-1000, 2100, -210), SubjectLine(1001, 2100, 210),
     SubjectLine(0, 0, 0), ExemptLine(500)}

RECURSIVE SeqsUpTo(_, _)
SeqsUpTo(S, n) ==
    IF n = 0 THEN {<<>>}
    ELSE LET shorter == SeqsUpTo(S, n - 1)
         IN  shorter \cup {Append(q, x) : q \in {t \in shorter : Len(t) = n - 1}, x \in S}

\* the tax amounts present in a breakdown, and its base amounts, in cents
TaxesOf(b) ==
    [i \in DOMAIN b |->
        IF b[i].tax_amount = None THEN 0 ELSE Cents(Val(b[i].tax_amount))]
BasesOf(b) == [i \in DOMAIN b |-> Cents(b[i].base_amount)]

\* breakdowns of up to MaxLines lines with totals at and around their sums
TotalsInputs ==
    UNION {{[BaseRegistration EXCEPT !.breakdown = b,
                                     !.total_tax_amount = Amt(SumSeq(TaxesOf(b)) + dt),
                                     !.total_amount =
                                         Amt(SumSeq(BasesOf(b)) + SumSeq(TaxesOf(b)) + d)] :
                dt \in -1..1, d \in -3..3} :
           b \in SeqsUpTo(LinePool, MaxLines) \ {<<>>}}

Recipient(name, nif) == [name |-> Text(name, 10), nif |-> nif]

\* records that differ in fields outside the fingerprint payload
PayloadFamily ==
    {[BaseRegistration EXCEPT !.issuer_name = n, !.description = ds,
                              !.external_reference = e, !.previous_invoice_id = pi,
                              !.previous_hash = IF pi = None THEN None ELSE Some(HexA)] :
        n \in {Text("Perico de los Palotes, S.A.", 27), Text("Otro, S.L.", 10)},
        ds \in {Text("Factura simplificada de prueba", 30), Text("Otra", 4)},
        e \in {None, Some(Text("REF-001", 7))},
        pi \in {None, Some(Id0), Some(Id1)}}
    \cup {[BaseRegistration EXCEPT !.invoice_type = "F1", !.recipients = rs] :
            rs \in {<<Recipient("Uno", "A00000000")>>,
                    <<Recipient("Uno", "A00000000"), Recipient("Dos", "B00000000")>>}}
    \cup {[BaseCancellation EXCEPT !.without_prior_record = w, !.previous_invoice_id = Some(pi),
                                    !.external_reference = e] :
            w \in BOOLEAN, pi \in {Id0, Id1}, e \in {None, Some(Text("REF-001", 7))}}

\* every invoice type with and without recipients, corrective type,
\* corrected invoices, corrected amounts and replaced invoices
TypeInputs ==
    {[BaseRegistration EXCEPT !.invoice_type = t, !.recipients = rs,
                              !.corrective_type = ct, !.corrected_invoices = ci,
                              !.corrected_base_amount = cb, !.corrected_tax_amount = cx,
                              !.replaced_invoices = ri] :
        t \in InvoiceTypes,
        rs \in {<<>>, <<Recipient("Uno", "A00000000")>>},
        ct \in {None} \cup {Some(c) : c \in CorrectiveTypes},
        ci \in {<<>>, <<Id1>>},
        cb \in {None, Some(Amt(1000))}, cx \in {None, Some(Amt(210))},
        ri \in {<<>>, <<Id1>>}}

\* breakdowns of 0, 1, 12 and 13 lines of zero amounts, totals 0.00 or not
NCopies(x, n) == [i \in 1..n |-> x]

LengthInputs ==
    {[BaseRegistration EXCEPT !.breakdown = NCopies(SubjectLine(0, 0, 0), n),
                              !.total_tax_amount = Amt(t), !.total_amount = Amt(t)] :
        n \in {0, 1, 12, 13}, t \in {0, 210}}

\* records that break the rules of several validators at once
OrderInputs ==
    {[BaseRegistration EXCEPT !.recipients = rs, !.total_amount = t,
                              !.correction = m[1], !.previous_rejection = m[2],
                              !.previous_invoice_id = p] :
        rs \in {<<>>, <<Recipient("Cliente", "B00000000")>>},
        t \in {Amt(1210), Amt(9999)},
        m \in {<<None, None>>, <<Some("S"), Some("N")>>},
        p \in {None, Some(Id0)}}

CtorInputs ==
    MarkerInputs \cup TotalsInputs \cup PayloadFamily \cup TypeInputs \cup LengthInputs
    \cup OrderInputs

\* calls that leave the breakdown out
OmittingInputs == {d \in LengthInputs : d.breakdown = <<>>}

InitCtor ==
    /\ rec = None
    /\ line = None
    /\ \/ \E d \in CtorInputs : last = Call("args", "", d, "ok")
       \/ \E d \in OmittingInputs : last = Call("args", "breakdown", d, "ok")
    /\ now \in Seasons
    /\ chain = <<>>
    /\ ServiceIdle

NextCtor ==
    \/ last.op = "args" /\ last.field = "" /\ Construct(last.arg)
    \/ last.op = "args" /\ last.field # "" /\ ConstructOmitting(last.arg, last.field)

SpecCtor == InitCtor /\ [][NextCtor]_vars

\* C2: two records of the same variant that agree on issuer id, invoice
\* number, issue date, invoice type, totals, previous hash and generation
\* timestamp have the same fingerprint, whatever their other fields.
AgreeOnFingerprintFields(a, b) ==
    /\ a.variant = b.variant
    /\ a.invoice_id = b.invoice_id
    /\ a.previous_hash = b.previous_hash
    /\ a.hashed_at = b.hashed_at
    /\ IsRegistration(a) =>
          /\ a.invoice_type = b.invoice_type
          /\ a.total_tax_amount = b.total_tax_amount
          /\ a.total_amount = b.total_amount

C2_FingerprintDependsOnlyOnPayloadFields ==
    (rec # None /\ last.op = "construct") =>
        \A other \in MarkerInputs \cup PayloadFamily :
            ("ok" \in Validate(other, now) /\ AgreeOnFingerprintFields(Val(rec), other))
                => calculate_hash(other, now) = calculate_hash(Val(rec), now)

\* an accepted registration for which another accepted record agrees on the
\* payload fields and differs in external reference, issuer name and
\* previous invoice identifier
C2_Witness ==
    /\ rec # None /\ last.op = "construct" /\ IsRegistration(Val(rec))
    /\ \E other \in PayloadFamily :
          /\ "ok" \in Validate(other, now)
          /\ AgreeOnFingerprintFields(Val(rec), other)
          /\ other.external_reference # Val(rec).external_reference
          /\ other.issuer_name # Val(rec).issuer_name
          /\ other.previous_invoice_id # Val(rec).previous_invoice_id

\* C6: on an otherwise valid record the markers are rejected exactly for
\* (correction, previous_rejection) = (N, S), (N, X), (S, N), (absent, X).
RejectedMarkers ==
    {<<Some("N"), Some("S")>>, <<Some("N"), Some("X")>>,
     <<Some("S"), Some("N")>>, <<None, Some("X")>>}

C6_MarkerTable ==
    (last.op = "construct"
     /\ Validate([last.arg EXCEPT !.correction = None,
                                  !.previous_rejection = None], now) = Ok) =>
        (last.out # "ok" <=>
            <<last.arg.correction, last.arg.previous_rejection>> \in RejectedMarkers)

C6_Witness ==
    /\ last.op = "construct" /\ last.out = "ok" /\ rec = Some(last.arg)
    /\ last.arg.correction = Some("S") /\ last.arg.previous_rejection = Some("X")

\* C9: an accepted RegistrationRecord has total_tax_amount equal to the sum
\* of the tax amounts of its lines, lines without a tax amount adding
\* nothing.
C9_TotalTaxIsSumOfLines ==
    (last.op = "construct" /\ last.out = "ok" /\ IsRegistration(last.arg)) =>
        Cents(Val(rec).total_tax_amount) = SumSeq(TaxesOf(Val(rec).breakdown))

\* C10: a RegistrationRecord whose total_tax_amount matches its breakdown is
\* accepted iff total_amount is within 0.02 of the sum of bases and taxes.
C10_TotalWithinTwoCents ==
    (last.op = "construct" /\ IsRegistration(last.arg)
     /\ Cents(last.arg.total_tax_amount) = SumSeq(TaxesOf(last.arg.breakdown))) =>
        (last.out = "ok" <=>
            Abs(Cents(last.arg.total_amount)
                - (SumSeq(BasesOf(last.arg.breakdown))
                   + SumSeq(TaxesOf(last.arg.breakdown)))) <= 2)

(***************************************************************************)
(* SpecChain: records sealed one after the other, each naming the          *)
(* fingerprint of the one before                                           *)
(***************************************************************************)
\* the previous pair a new record may carry
PreviousPairs ==
    IF chain = <<>>
    THEN {<<None, None>>, <<Some(Id0), Some(HexA)>>}
    ELSE {<<Some(chain[Len(chain)].invoice_id), Some(chain[Len(chain)].hash)>>}

ChainInputs ==
    {[b EXCEPT !.hashed_at = t, !.previous_invoice_id = p[1], !.previous_hash = p[2]] :
        b \in {BaseRegistration, BaseCancellation}, t \in {T0, TAware},
        p \in PreviousPairs}

NextChain ==
    \/ \E d \in ChainInputs : Construct(d)
    \/ Seal
    \/ Link
    \/ Tick

SpecChain == Init /\ [][NextChain]_vars

\* every record of the chain is accepted now and names its predecessor
ChainIsValid ==
    /\ \A j \in DOMAIN chain : Validate(chain[j], now) = Ok
    /\ \A j \in DOMAIN chain :
          j > 1 => chain[j].previous_hash = Some(chain[j - 1].hash)

\* the records that differ from r in one of the fields the fingerprint is
\* made of; the previous fingerprint is changed on non-head records only
Stamps ==
    {Stamp(d, sec, micro, tz) :
        d \in Seasons, sec \in 0..1, micro \in 0..1, tz \in {None, Some(3600), Some(7200)}}

Tampered(r, head) ==
    ({[r EXCEPT !.invoice_id.issuer_id = v] : v \in {"A00000000", "B00000000"}}
     \cup {[r EXCEPT !.invoice_id.invoice_number = v] : v \in {"PRUEBA-0001", "PRUEBA-0000"}}
     \cup {[r EXCEPT !.invoice_id.issue_date = [day |-> d, tod |-> t]] :
              d \in 1..2, t \in 0..1}
     \cup {[r EXCEPT !.hashed_at = t] : t \in Stamps}
     \cup (IF head THEN {}
           ELSE {[r EXCEPT !.previous_hash = v] : v \in {None, Some(HexA), Some(HexB)}})
     \cup (IF IsRegistration(r)
           THEN {[r EXCEPT !.invoice_type = v] : v \in InvoiceTypes}
                \cup {[r EXCEPT !.total_tax_amount = Amt(v)] : v \in {0, 210, 211}}
                \cup {[r EXCEPT !.total_amount = Amt(v)] : v \in {0, 1210, 1211}}
           ELSE {}))
    \ {r}

\* what the fingerprint shows of a record: the calendar day of the issue
\* date, and the generation timestamp to the second with its offset in
\* whole minutes, the host's current offset standing in for a missing one
OffsetMinutes(dt, clock) ==
    LET total_seconds == OffsetSeconds(dt, clock)
    IN  IF total_seconds >= 0 THEN total_seconds \div 60
        ELSE -((-total_seconds) \div 60)

Rendered(r, clock) ==
    << r.invoice_id.issuer_id, r.invoice_id.invoice_number, r.invoice_id.issue_date.day,
       IF IsRegistration(r) THEN <<r.invoice_type, r.total_tax_amount, r.total_amount>>
       ELSE <<>>,
       r.previous_hash,
       r.hashed_at.date, r.hashed_at.sec, OffsetMinutes(r.hashed_at, clock) >>

\* C3 as stated: in a chain of valid sealed records every recomputed
\* fingerprint equals the stored one and the next record's previous_hash,
\* and changing any one of issuer id, invoice number, issue date, invoice
\* type, totals, previous hash or generation timestamp breaks the equality.
C3_AnyFieldChangeBreaksReplay ==
    ChainIsValid =>
        \A i \in DOMAIN chain :
            /\ calculate_hash(chain[i], now) = chain[i].hash
            /\ i < Len(chain) =>
                  Some(calculate_hash(chain[i], now)) = chain[i + 1].previous_hash
            /\ \A t \in Tampered(chain[i], i = 1) :
                  calculate_hash(t, now) # chain[i].hash

\* C3: in a chain of valid sealed records every recomputed fingerprint
\* equals the stored one and the next record's previous_hash, and a change
\* of one payload field that shows in its rendering (the issue date's
\* calendar day, the timestamp to the second with its offset) breaks the
\* equality.
C3_RenderedChangeBreaksReplay ==
    ChainIsValid =>
        \A i \in DOMAIN chain :
            /\ calculate_hash(chain[i], now) = chain[i].hash
            /\ i < Len(chain) =>
                  Some(calculate_hash(chain[i], now)) = chain[i + 1].previous_hash
            /\ \A t \in Tampered(chain[i], i = 1) :
                  Rendered(t, now) # Rendered(chain[i], now)
                      => calculate_hash(t, now) # chain[i].hash

\* a valid chain of two records whose second one is a cancellation and
\* whose first one carries a naive generation timestamp
C3_Witness ==
    /\ Len(chain) >= 2
    /\ ChainIsValid
    /\ IsCancellation(chain[2])
    /\ chain[1].hashed_at.tzinfo = None

\* the constructor input is BaseRegistration but for its breakdown and totals
OnlyTotalsVary(d) ==
    /\ IsRegistration(d)
    /\ [d EXCEPT !.breakdown = BaseRegistration.breakdown,
                 !.total_tax_amount = BaseRegistration.total_tax_amount,
                 !.total_amount = BaseRegistration.total_amount] = BaseRegistration

\* C11 as stated: a RegistrationRecord whose total_tax_amount or
\* total_amount is negative is rejected.
C11_NegativeTotalsRejected ==
    (last.op = "construct" /\ IsRegistration(last.arg)
     /\ (Cents(last.arg.total_tax_amount) < 0 \/ Cents(last.arg.total_amount) < 0)) =>
        last.out # "ok"

\* C11: negative amounts are accepted for the base and tax amount of a line
\* and for the totals alike: a record whose lines all carry a tax amount
\* and whose negative totals are the sums of its lines is accepted, and so
\* is each of its lines.
C11_NegativeTotalsAccepted ==
    (last.op = "construct" /\ OnlyTotalsVary(last.arg)
     /\ (\A i \in DOMAIN last.arg.breakdown : last.arg.breakdown[i].tax_amount # None)
     /\ Cents(last.arg.total_tax_amount) = SumSeq(TaxesOf(last.arg.breakdown))
     /\ Cents(last.arg.total_tax_amount) < 0
     /\ Cents(last.arg.total_amount)
           = SumSeq(BasesOf(last.arg.breakdown)) + SumSeq(TaxesOf(last.arg.breakdown))
     /\ Cents(last.arg.total_amount) < 0) =>
        /\ last.out = "ok"
        /\ \A i \in DOMAIN last.arg.breakdown : ValidateLine(last.arg.breakdown[i]) = Ok

\* an accepted record with one line of negative base and tax and negative
\* totals
C11_Witness ==
    /\ last.op = "construct" /\ last.out = "ok" /\ rec = Some(last.arg)
    /\ OnlyTotalsVary(last.arg)
    /\ Len(last.arg.breakdown) = 1
    /\ Cents(last.arg.breakdown[1].base_amount) < 0
    /\ Cents(last.arg.total_tax_amount) < 0
    /\ Cents(last.arg.total_amount) < 0

\* C12: an accepted line has both tax rate and tax amount when its operation
\* type is S1 or S2 and neither when it is N1, N2 or E1..E6; a line with
\* exactly one of the two is rejected whatever its operation type.
C12_RateAndTaxByOperationType ==
    last.op = "BreakdownDetails" =>
        LET l == last.arg
        IN  /\ last.out = "ok" =>
                  IF l.operation_type \in {"S1", "S2"}
                  THEN l.tax_rate # None /\ l.tax_amount # None
                  ELSE l.tax_rate = None /\ l.tax_amount = None
            /\ ((l.tax_rate = None) # (l.tax_amount = None)) => last.out # "ok"

\* an accepted exempt line, which carries neither rate nor tax amount
C12_Witness ==
    /\ last.op = "BreakdownDetails" /\ last.out = "ok" /\ line = Some(last.arg)
    /\ last.arg.operation_type = "E6"
    /\ last.arg.tax_rate = None /\ last.arg.tax_amount = None

\* the last call built a RegistrationRecord and was accepted
RegistrationAccepted ==
    last.op = "construct" /\ last.out = "ok" /\ IsRegistration(last.arg)
    /\ rec = Some(last.arg)

\* C13: an accepted RegistrationRecord has no recipients when its invoice
\* type is F2 or R5 and at least one when it is F1, F3, R1, R2, R3 or R4.
C13_RecipientsByInvoiceType ==
    RegistrationAccepted =>
        IF last.arg.invoice_type \in {"F2", "R5"}
        THEN Len(last.arg.recipients) = 0
        ELSE /\ last.arg.invoice_type \in {"F1", "F3", "R1", "R2", "R3", "R4"}
             /\ Len(last.arg.recipients) > 0

\* an accepted corrective invoice of type R5, which has no recipients
C13_Witness ==
    /\ RegistrationAccepted
    /\ last.arg.invoice_type = "R5" /\ Len(last.arg.recipients) = 0

\* C14: an accepted RegistrationRecord has a corrective type exactly when
\* its invoice type is one of R1..R5, lists corrected invoices only when it
\* is corrective, and has both corrected amounts when the corrective type is
\* S and neither when it is I or absent.
C14_CorrectiveDetails ==
    RegistrationAccepted =>
        LET r == last.arg
            is_corrective == r.invoice_type \in {"R1", "R2", "R3", "R4", "R5"}
        IN  /\ (r.corrective_type # None) <=> is_corrective
            /\ Len(r.corrected_invoices) > 0 => is_corrective
            /\ IF r.corrective_type = Some("S")
               THEN r.corrected_base_amount # None /\ r.corrected_tax_amount # None
               ELSE r.corrected_base_amount = None /\ r.corrected_tax_amount = None

\* an accepted corrective invoice by substitution with its corrected
\* invoices and both corrected amounts
C14_Witness ==
    /\ RegistrationAccepted
    /\ last.arg.invoice_type = "R1" /\ last.arg.corrective_type = Some("S")
    /\ Len(last.arg.corrected_invoices) > 0
    /\ last.arg.corrected_base_amount # None /\ last.arg.corrected_tax_amount # None

\* C15: every RegistrationRecord accepted by the constructor has between 1
\* and 12 breakdown lines, whether the breakdown was passed or left out.
C15_BreakdownLengthAtConstruction ==
    RegistrationAccepted =>
        (Len(Val(rec).breakdown) >= 1 /\ Len(Val(rec).breakdown) <= 12)

(***************************************************************************)
(* Service responses.  An XML response is modelled by the elements the     *)
(* decoders look at.  An element is None when it is absent and Some(text)  *)
(* when it is present; the text "" stands for an element without text.     *)
(* A document that is not well-formed XML has wellformed = FALSE.          *)
(***************************************************************************)
Elem(texts) == {None} \cup {Some(t) : t \in texts}

\* "element is not None and element.text"
HasText(e) == e # None /\ Val(e) # ""

SubmissionRoot == "RespuestaRegFactuSistemaFacturacion"

QueryRoot == "RespuestaConsultaFactuSistemaFacturacion"

ResponseStatusValues == {"Correcto", "ParcialmenteCorrecto", "Incorrecto"}

ItemStatusValues == {"Correcto", "AceptadoConErrores", "Incorrecto"}

RecordTypeValues == {"Alta", "Anulacion"}

QueryRecordStatusValues == {"Correcto", "AceptadoConErrores", "Anulado"}

QueryResultTypeValues == {"ConDatos", "SinDatos"}

\* int(text): the texts of the model that Python's int() accepts
IntTexts == {"0", "60", "2025"}

IntOf(t) == CASE t = "0" -> 0 [] t = "60" -> 60 [] t = "2025" -> 2025

\* datetime.strptime(text, "%d-%m-%Y") accepts day-month-year only
DayMonthYearTexts == {"01-06-2025", "25-11-2025"}

\* datetime.fromisoformat(text) accepts ISO 8601 timestamps
IsoTexts == {"2025-06-01T10:20:30+02:00"}

ParsedDate(t) == <<"date", t>>

\* datetime.now(): the host's current time, not a value of the response
CurrentTime == <<"now">>

\* outcome of a call: it returned, or it raised an exception
Returned == [raised |-> "none", message |-> ""]

Raise(type, message) == [raised |-> type, message |-> message]

Result(out, value) == [out |-> out, value |-> value]

Failure(type, message) == Result(Raise(type, message), None)

\* InvoiceIdentifier(issuer_id, invoice_number, issue_date): both texts
\* must be non-blank strings (an element without text yields None)
InvoiceIdentifierAccepts(issuer_id, invoice_number) ==
    /\ issuer_id # ""
    /\ invoice_number # ""

\* the values a status or record type takes when its element has no text
DefaultResponseStatus == "Incorrecto"

DefaultItemStatus_Correct == "Correcto"
DefaultItemStatus == "Incorrecto"

DefaultRecordType == "Alta"

\* one tikR:RespuestaLinea of a submission response
ParseLine(l) ==
    LET issuer_id == IF l.issuer = None THEN "" ELSE Val(l.issuer)
        invoice_number == IF l.number = None THEN "" ELSE Val(l.number)
    IN  IF HasText(l.date) /\ Val(l.date) \notin DayMonthYearTexts
        THEN Failure("AeatException", "Invalid invoice issue date")
        ELSE IF HasText(l.tipo) /\ Val(l.tipo) \notin RecordTypeValues
        THEN Failure("ValueError", "not a valid RecordType")
        ELSE IF HasText(l.estado) /\ Val(l.estado) \notin ItemStatusValues
        THEN Failure("ValueError", "not a valid ItemStatus")
        ELSE IF ~InvoiceIdentifierAccepts(issuer_id, invoice_number)
        THEN Failure("ValidationError", "cannot be blank")
        ELSE Result(Returned, Some(
                [issuer_id |-> issuer_id,
                 invoice_number |-> invoice_number,
                 issue_date |-> IF HasText(l.date) THEN ParsedDate(Val(l.date))
                                ELSE CurrentTime,
                 record_type |-> IF HasText(l.tipo) THEN Val(l.tipo)
                                 ELSE DefaultRecordType,
                 status |-> IF HasText(l.estado) THEN Val(l.estado)
                            ELSE DefaultItemStatus]))

\* `element.text if element is not None else None`
TextOrNone(e) == IF HasText(e) THEN e ELSE None

\* QueryResponse._parse_response_item
parse_response_item(l) ==
    LET issuer_id == IF l.issuer = None THEN "" ELSE Val(l.issuer)
        invoice_number == IF l.number = None THEN "" ELSE Val(l.number)
    IN  IF ~InvoiceIdentifierAccepts(issuer_id, invoice_number)
        THEN Failure("ValidationError", "cannot be blank")
        ELSE Result(Returned, Some(
                [issuer_id |-> issuer_id,
                 invoice_number |-> invoice_number,
                 issue_date |-> IF HasText(l.date) /\ Val(l.date) \in DayMonthYearTexts
                                THEN ParsedDate(Val(l.date))
                                ELSE CurrentTime,
                 status |-> IF HasText(l.estado) /\ Val(l.estado) \in QueryRecordStatusValues
                            THEN Some(Val(l.estado))
                            ELSE None,
                 is_first_record |-> l.first = Some("S"),
                 previous_record |->
                     IF l.previous = None THEN None
                     ELSE LET block == Val(l.previous)
                          IN  Some([issuer_nif |-> TextOrNone(block.issuer),
                                    invoice_number |-> TextOrNone(block.number),
                                    issue_date |->
                                        IF HasText(block.date)
                                           /\ Val(block.date) \in DayMonthYearTexts
                                        THEN Some(ParsedDate(Val(block.date)))
                                        ELSE None,
                                    hash |-> TextOrNone(block.hash)])]))

\* the item parser a decoder applies to each of its lines
ParseItem(decoder, l) ==
    IF decoder = "AeatResponse" THEN ParseLine(l) ELSE parse_response_item(l)

\* the loop over the lines: the first line that fails ends the decoding
RECURSIVE ParseLines(_, _)
ParseLines(ls, decoder) ==
    IF ls = <<>> THEN Result(Returned, Some(<<>>))
    ELSE LET head == ParseItem(decoder, Head(ls))
         IN  IF head.out # Returned THEN head
             ELSE LET rest == ParseLines(Tail(ls), decoder)
                  IN  IF rest.out # Returned THEN rest
                      ELSE Result(Returned, Some(<<Val(head.value)>> \o Val(rest.value)))

\* AeatResponse.from_xml
AeatResponse_from_xml(doc) ==
    IF ~doc.wellformed
    THEN Failure("AeatException", "Failed to parse XML response")
    ELSE IF HasText(doc.fault)
    THEN Failure("AeatException", Val(doc.fault))
    ELSE IF doc.root = None \/ Val(doc.root).name # SubmissionRoot
    THEN Failure("AeatException", "Missing root element from response")
    ELSE LET body == Val(doc.root)
             items == ParseLines(body.lines, "AeatResponse")
         IN  IF HasText(body.submitted) /\ Val(body.submitted) \notin IsoTexts
             THEN Failure("AeatException", "Invalid submitted at date")
             ELSE IF HasText(body.wait) /\ Val(body.wait) \notin IntTexts
             THEN Failure("ValueError", "invalid literal for int()")
             ELSE IF HasText(body.estado) /\ Val(body.estado) \notin ResponseStatusValues
             THEN Failure("ValueError", "not a valid ResponseStatus")
             ELSE IF items.out # Returned THEN items
             ELSE Result(Returned, Some(
                     [wait_seconds |-> IF HasText(body.wait) THEN IntOf(Val(body.wait))
                                       ELSE 0,
                      status |-> IF HasText(body.estado) THEN Val(body.estado)
                                 ELSE DefaultResponseStatus,
                      submitted_at |-> IF HasText(body.submitted)
                                       THEN Some(ParsedDate(Val(body.submitted)))
                                       ELSE None,
                      items |-> Val(items.value)]))

\* QueryResponse.from_xml
QueryResponse_from_xml(doc) ==
    IF ~doc.wellformed
    THEN Failure("AeatException", "Failed to parse XML response")
    ELSE IF HasText(doc.fault)
    THEN Failure("AeatException", Val(doc.fault))
    ELSE IF doc.root = None \/ Val(doc.root).name # QueryRoot
    THEN Failure("AeatException", "Missing root element from response")
    ELSE LET body == Val(doc.root)
             items == ParseLines(body.lines, "QueryResponse")
         IN  IF HasText(body.year) /\ Val(body.year) \notin IntTexts
             THEN Failure("ValueError", "invalid literal for int()")
             ELSE IF HasText(body.result) /\ Val(body.result) \notin QueryResultTypeValues
             THEN Failure("ValueError", "not a valid QueryResultType")
             ELSE IF items.out # Returned THEN items
             ELSE Result(Returned, Some(
                     [year |-> IF HasText(body.year) THEN IntOf(Val(body.year)) ELSE 0,
                      result_type |-> IF HasText(body.result) THEN Val(body.result)
                                      ELSE "SinDatos",
                      items |-> Val(items.value)]))

(***************************************************************************)
(* The submission encoder.  An XML element is its tag, its text (None for  *)
(* an element whose text was set to None or never set) and its children    *)
(* in document order.                                                      *)
(***************************************************************************)
Node(tag, kids) == [tag |-> tag, text |-> None, kids |-> kids]

Leaf(tag, text) == [tag |-> tag, text |-> text, kids |-> <<>>]

\* obj.name on a model object: AttributeError when the class has no such field
HasAttr(obj, name) == name \in DOMAIN obj

\* a value Python treats as true in `if value:`
Truthy(o) == o # None /\ Val(o) # ""

\* the children of e that carry the tag, in document order
Children(e, tag) == SelectSeq(e.kids, LAMBDA k : k.tag = tag)

HasChild(e, tag) == Children(e, tag) # <<>>

Child(e, tag) == Head(Children(e, tag))

Tags(e) == [i \in DOMAIN e.kids |-> e.kids[i].tag]

\* the client's configuration: computer system, taxpayer, representative
System ==
    [vendor_name |-> "Test Vendor SL", vendor_nif |-> "B12345678",
     name |-> "TestSystem", id |-> "TS", version |-> "1.0.0",
     installation_number |-> "INST-001",
     only_supports_verifactu |-> TRUE, supports_multiple_taxpayers |-> FALSE,
     has_multiple_taxpayers |-> FALSE]

Taxpayer == [name |-> "Test Company SL", nif |-> "A98765432"]

Representative == [name |-> "Representative SL", nif |-> "C22222222"]

SN(flag) == IF flag THEN "S" ELSE "N"

\* AeatClient._add_invoice_id
add_invoice_id(invoice_id) ==
    Node("IDFactura",
         << Leaf("IDEmisorFactura", Some(invoice_id.issuer_id)),
            Leaf("NumSerieFactura", Some(invoice_id.invoice_number)),
            Leaf("FechaExpedicionFactura", Some(FormatDate(invoice_id.issue_date))) >>)

\* AeatClient._add_chaining
add_chaining(record) ==
    Node("Encadenamiento",
         IF record.previous_invoice_id = None
         THEN << Leaf("PrimerRegistro", Some("S")) >>
         ELSE << Node("RegistroAnterior",
                 << Leaf("IDEmisorFactura", Some(Val(record.previous_invoice_id).issuer_id)),
                    Leaf("NumSerieFactura", Some(Val(record.previous_invoice_id).invoice_number)),
                    Leaf("FechaExpedicionFactura",
                         Some(FormatDate(Val(record.previous_invoice_id).issue_date))),
                    Leaf("Huella", record.previous_hash) >>) >>)

\* AeatClient._add_computer_system
add_computer_system ==
    Node("SistemaInformatico",
         << Leaf("NombreRazon", Some(System.vendor_name)),
            Leaf("NIF", Some(System.vendor_nif)),
            Leaf("NombreSistemaInformatico", Some(System.name)),
            Leaf("IdSistemaInformatico", Some(System.id)),
            Leaf("Version", Some(System.version)),
            Leaf("NumeroInstalacion", Some(System.installation_number)),
            Leaf("TipoUsoPosibleSoloVerifactu", Some(SN(System.only_supports_verifactu))),
            Leaf("TipoUsoPosibleMultiOT", Some(SN(System.supports_multiple_taxpayers))),
            Leaf("IndicadorMultiplesOT", Some(SN(System.has_multiple_taxpayers))) >>)

\* one IDDestinatario: the recipient's name and its nif attribute
ExportRecipient(recipient) ==
    IF ~HasAttr(recipient, "nif")
    THEN Failure("AttributeError", "nif")
    ELSE Result(Returned, Some(
            Node("IDDestinatario",
                 << Leaf("NombreRazon", Some(recipient.name)),
                    Leaf("NIF", Some(recipient.nif)) >>)))

\* one DetalleDesglose
ExportDetail(detail) ==
    Node("DetalleDesglose",
         << Leaf("Impuesto", Some(detail.tax_type)),
            Leaf("ClaveRegimen", Some(detail.regime_type)),
            Leaf("CalificacionOperacion", Some(detail.operation_type)),
            Leaf("TipoImpositivo", detail.tax_rate),
            Leaf("BaseImponibleOimporteNoSujeto", Some(detail.base_amount)),
            Leaf("CuotaRepercutida", detail.tax_amount) >>)

\* the loop over the recipients: the first failure ends it
RECURSIVE ExportRecipients(_)
ExportRecipients(recipients) ==
    IF recipients = <<>> THEN Result(Returned, Some(<<>>))
    ELSE LET head == ExportRecipient(Head(recipients))
         IN  IF head.out # Returned THEN head
             ELSE LET rest == ExportRecipients(Tail(recipients))
                  IN  IF rest.out # Returned THEN rest
                      ELSE Result(Returned, Some(<<Val(head.value)>> \o Val(rest.value)))

OptionalKid(present, kid) == IF present THEN <<kid>> ELSE <<>>

\* AeatClient._export_registration_record: the children it appends
export_registration_record(record) ==
    LET recipients == ExportRecipients(record.recipients)
    IN  IF recipients.out # Returned THEN recipients
        ELSE Result(Returned, Some(
               << add_invoice_id(record.invoice_id),
                  Leaf("NombreRazonEmisor", Some(record.issuer_name)),
                  Leaf("TipoFactura", Some(record.invoice_type)) >>
               \o OptionalKid(record.corrective_type # None,
                              Leaf("TipoRectificativa", record.corrective_type))
               \o OptionalKid(record.description.len > 0,
                              Leaf("DescripcionOperacion", Some(record.description)))
               \o OptionalKid(record.recipients # <<>>,
                              Node("Destinatarios", Val(recipients.value)))
               \o << Node("Desglose",
                          [i \in DOMAIN record.breakdown |-> ExportDetail(record.breakdown[i])]),
                     Leaf("CuotaTotal", Some(record.total_tax_amount)),
                     Leaf("ImporteTotal", Some(record.total_amount)) >>))

\* AeatClient._export_cancellation_record: the children it appends
export_cancellation_record(record) ==
    IF ~HasAttr(record, "issuer_name")
    THEN Failure("AttributeError", "issuer_name")
    ELSE IF ~HasAttr(record, "cancellation_type")
    THEN Failure("AttributeError", "cancellation_type")
    ELSE Result(Returned, Some(
           << add_invoice_id(record.invoice_id),
              Leaf("NombreRazonEmisor", Some(record.issuer_name)),
              Leaf("TipoFactura", Some(record.cancellation_type)) >>))

\* AeatClient._export_record: the RegistroFactura element of one record
export_record(record, clock) ==
    LET body == IF IsRegistration(record)
                THEN export_registration_record(record)
                ELSE export_cancellation_record(record)
    IN  IF body.out # Returned THEN body
        ELSE Result(Returned, Some(
               Node("RegistroFactura",
                 << Node(IF IsRegistration(record) THEN "RegistroAlta" ELSE "RegistroAnulacion",
                      << Leaf("IDVersion", Some("1.0")) >>
                      \o Val(body.value)
                      \o << add_chaining(record),
                            add_computer_system,
                            Leaf("FechaHoraHusoGenRegistro",
                                 Some(TimestampString(record.hashed_at, clock))),
                            Leaf("TipoHuella", Some("01")),
                            Leaf("Huella", Some(record.hash)) >>
                      \o OptionalKid(Truthy(record.previous_rejection),
                                     Leaf("RechazoPrevio", record.previous_rejection))
                      \o OptionalKid(Truthy(record.correction),
                                     Leaf("Subsanacion", record.correction))
                      \o OptionalKid(record.external_reference # None
                                        /\ Val(record.external_reference).len > 0,
                                     Leaf("RefExterna", record.external_reference))) >>)))

\* the loop over the records of the batch
RECURSIVE ExportRecords(_, _)
ExportRecords(records, clock) ==
    IF records = <<>> THEN Result(Returned, Some(<<>>))
    ELSE LET head == export_record(Head(records), clock)
         IN  IF head.out # Returned THEN head
             ELSE LET rest == ExportRecords(Tail(records), clock)
                  IN  IF rest.out # Returned THEN rest
                      ELSE Result(Returned, Some(<<Val(head.value)>> \o Val(rest.value)))

\* the Cabecera of a submission
Cabecera_RemisionFirst(representative, incidencia) ==
    Node("Cabecera",
         << Node("ObligadoEmision",
                 << Leaf("NombreRazon", Some(Taxpayer.name)),
                    Leaf("NIF", Some(Taxpayer.nif)) >>) >>
         \o OptionalKid(incidencia,
                Node("RemisionVoluntaria", << Leaf("Incidencia", Some("S")) >>))
         \o OptionalKid(representative # None,
                Node("Representante",
                     << Leaf("NombreRazon", Some(Val(representative).name)),
                        Leaf("NIF", Some(Val(representative).nif)) >>)))
Cabecera(representative, incidencia) ==
    Node("Cabecera",
         << Node("ObligadoEmision",
                 << Leaf("NombreRazon", Some(Taxpayer.name)),
                    Leaf("NIF", Some(Taxpayer.nif)) >>) >>
         \o OptionalKid(representative # None,
                Node("Representante",
                     << Leaf("NombreRazon", Some(Val(representative).name)),
                        Leaf("NIF", Some(Val(representative).nif)) >>))
         \o OptionalKid(incidencia,
                Node("RemisionVoluntaria", << Leaf("Incidencia", Some("S")) >>)))

\* AeatClient._build_xml_request; first a builder that emits the records
\* last to first
build_xml_request_Reordered(representative, records, incidencia, clock) ==
    LET exported == ExportRecords([i \in 1..Len(records) |-> records[Len(records) + 1 - i]],
                                  clock)
    IN  IF exported.out # Returned THEN exported
        ELSE Result(Returned, Some(
               Node("Envelope",
                 << Node("Header", <<>>),
                    Node("Body",
                      << Node("RegFactuSistemaFacturacion",
                              <<Cabecera(representative, incidencia)>>
                              \o Val(exported.value)) >>) >>)))
build_xml_request(representative, records, incidencia, clock) ==
    LET exported == ExportRecords(records, clock)
    IN  IF exported.out # Returned THEN exported
        ELSE Result(Returned, Some(
               Node("Envelope",
                 << Node("Header", <<>>),
                    Node("Body",
                      << Node("RegFactuSistemaFacturacion",
                              <<Cabecera(representative, incidencia)>>
                              \o Val(exported.value)) >>) >>)))

(***************************************************************************)
(* AeatClient.send and AeatClient.query: one POST, then the decoder        *)
(***************************************************************************)
\* what the network does with the POST: a 200 reply, or one of the
\* failures requests reports (raise_for_status included)
HttpFailures == {"ConnectionError", "SSLError", "Timeout", "HTTPError"}

\* record.hash = record.calculate_hash() on a host whose clock is in `season`
SealAt(r, season) == [r EXCEPT !.hash = calculate_hash(r, season)]

\* the arguments of a call and what the network does with its POST;
\* incidencia is None when the caller leaves the argument out
Submission(records, representative, incidencia, http, doc) ==
    [records |-> records, representative |-> representative,
     incidencia |-> incidencia, http |-> http, doc |-> doc]

\* `incidencia: bool = False`
IncidenciaArg(o) == IF o = None THEN FALSE ELSE Val(o)

\* a call with one sealed registration record and the default arguments
Exchange(http, doc) ==
    Submission(<<SealAt([BaseRegistration EXCEPT !.hashed_at = TAware], "winter")>>,
               None, None, http, doc)

\* result of a service call: POSTs performed, document posted, outcome,
\* value returned
Rpc(n, posted, result) ==
    [posts |-> n, posted |-> posted, out |-> result.out, value |-> result.value]

\* AeatClient.send: build the request, POST it once, decode the reply
send_Retrying(net, clock) ==
    LET xml == build_xml_request(net.representative, net.records,
                                 IncidenciaArg(net.incidencia), clock)
    IN  IF xml.out # Returned THEN Rpc(0, None, xml)
        ELSE IF net.http \in HttpFailures
        THEN Rpc(2, xml.value, Failure("AeatException", "Failed to send request to AEAT"))
        ELSE Rpc(1, xml.value, AeatResponse_from_xml(net.doc))
send(net, clock) ==
    LET xml == build_xml_request(net.representative, net.records,
                                 IncidenciaArg(net.incidencia), clock)
    IN  IF xml.out # Returned THEN Rpc(0, None, xml)
        ELSE IF net.http \in HttpFailures
        THEN Rpc(1, xml.value, Failure("AeatException", "Failed to send request to AEAT"))
        ELSE Rpc(1, xml.value, AeatResponse_from_xml(net.doc))

\* AeatClient.query (the query request it builds is not kept)
query(net) ==
    IF net.http \in HttpFailures
    THEN Rpc(1, None, Failure("AeatException", "Failed to send query request to AEAT"))
    ELSE Rpc(1, None, QueryResponse_from_xml(net.doc))

Send ==
    /\ last.op = "args"
    /\ LET r == send(last.arg, now)
       IN  /\ posts' = r.posts
           /\ wire' = r.posted
           /\ reply' = r.value
           /\ last' = Call("send", "AeatResponse", last.arg, r.out)
    /\ UNCHANGED <<rec, line, now, chain, clients, files>>

Query ==
    /\ last.op = "args"
    /\ LET r == query(last.arg)
       IN  /\ posts' = r.posts
           /\ wire' = r.posted
           /\ reply' = r.value
           /\ last' = Call("query", "QueryResponse", last.arg, r.out)
    /\ UNCHANGED <<rec, line, now, chain, clients, files>>

\* the decoders called directly on a document in hand
DecodeSubmission ==
    /\ last.op = "args"
    /\ last.arg.http = "200"
    /\ LET r == AeatResponse_from_xml(last.arg.doc)
       IN  /\ reply' = r.value
           /\ last' = Call("from_xml", "AeatResponse", last.arg, r.out)
    /\ UNCHANGED <<rec, line, now, chain, posts, clients, files, wire>>

DecodeQuery ==
    /\ last.op = "args"
    /\ last.arg.http = "200"
    /\ LET r == QueryResponse_from_xml(last.arg.doc)
       IN  /\ reply' = r.value
           /\ last' = Call("from_xml", "QueryResponse", last.arg, r.out)
    /\ UNCHANGED <<rec, line, now, chain, posts, clients, files, wire>>

(***************************************************************************)
(* SpecRpc: one service call on one exchange with the network              *)
(***************************************************************************)
MaxRespLines == 1

BoundedSeq(S, n) == UNION {[1..k -> S] : k \in 0..n}

FaultTexts == {"Codigo[4102].El XML no cumple el esquema"}

GoodLine ==
    [issuer |-> Some("B12345678"), number |-> Some("F-1"),
     date |-> Some("01-06-2025"), tipo |-> Some("Alta"),
     estado |-> Some("Correcto")]

SubmissionLines ==
    [issuer : Elem({"B12345678"}),
     number : Elem({"F-1"}),
     date : Elem({"01-06-2025", "2025-06-01"}),
     tipo : Elem({"Anulacion"}),
     estado : Elem(ItemStatusValues \cup {"Rechazado"})]

SubmissionBodies ==
    {[name |-> SubmissionRoot, submitted |-> s, wait |-> w, estado |-> e,
      lines |-> <<GoodLine>>] :
        s \in Elem({"2025-06-01T10:20:30+02:00", "ayer"}),
        w \in Elem({"60", "pronto"}),
        e \in Elem(ResponseStatusValues \cup {"Rechazado"})}
    \cup
    {[name |-> SubmissionRoot, submitted |-> None, wait |-> Some("60"),
      estado |-> Some("ParcialmenteCorrecto"), lines |-> ls] :
        ls \in BoundedSeq(SubmissionLines, MaxRespLines)}

GoodRecord ==
    [issuer |-> Some("B12345678"), number |-> Some("F-1"),
     date |-> Some("01-06-2025"), estado |-> Some("Correcto"),
     first |-> Some("S"), previous |-> None]

\* RegistroAnterior blocks: complete, with a date that is not
\* day-month-year, and without any child
PreviousBlocks ==
    {[issuer |-> Some("B12345678"), number |-> Some("FACT-001"),
      date |-> Some(d), hash |-> Some("ABC123DEF456")] :
        d \in {"25-11-2025", "2025-11-25"}}
    \cup {[issuer |-> None, number |-> None, date |-> None, hash |-> None]}

QueryRecords ==
    {[GoodRecord EXCEPT !.issuer = i, !.number = n, !.date = d, !.estado = e] :
        i \in Elem({"B12345678"}),
        n \in Elem({"F-1"}),
        d \in Elem({"01-06-2025", "2025-06-01"}),
        e \in Elem({"Correcto", "Anulado", "Rechazado"})}
    \cup
    {[GoodRecord EXCEPT !.first = f, !.previous = p] :
        f \in Elem({"S", "N"}),
        p \in {None} \cup {Some(b) : b \in PreviousBlocks}}

QueryBodies ==
    {[name |-> QueryRoot, year |-> y, result |-> r, lines |-> <<GoodRecord>>] :
        y \in Elem({"2025", "hogano"}),
        r \in Elem(QueryResultTypeValues \cup {"Otro"})}
    \cup
    {[name |-> QueryRoot, year |-> Some("2025"), result |-> Some("ConDatos"),
      lines |-> ls] : ls \in BoundedSeq(QueryRecords, MaxRespLines)}

Document(wellformed, fault, root) ==
    [wellformed |-> wellformed, fault |-> fault, root |-> root]

Documents ==
    {Document(FALSE, None, None)}
    \cup {Document(TRUE, f, None) : f \in Elem(FaultTexts \cup {""})}
    \cup {Document(TRUE, f, Some(b)) :
            f \in Elem(FaultTexts \cup {""}),
            b \in {b \in SubmissionBodies \cup QueryBodies : b.lines \in {<<GoodLine>>, <<GoodRecord>>}}}
    \cup {Document(TRUE, None, Some(b)) : b \in SubmissionBodies \cup QueryBodies}

Exchanges ==
    {Exchange("200", d) : d \in Documents}
    \cup {Exchange(h, Document(FALSE, None, None)) : h \in HttpFailures}

InitRpc ==
    /\ rec = None
    /\ line = None
    /\ \E net \in Exchanges : last = Call("args", "", net, Returned)
    /\ now = "winter"
    /\ chain = <<>>
    /\ ServiceIdle

NextRpc ==
    \/ Send
    \/ Query
    \/ DecodeSubmission
    \/ DecodeQuery

SpecRpc == InitRpc /\ [][NextRpc]_vars

(***************************************************************************)
(* Properties of the service calls                                         *)
(***************************************************************************)
\* the last call ran the submission decoder (through send or directly)
SubmissionCall == last.op \in {"send", "from_xml"} /\ last.field = "AeatResponse"

\* the last call ran the query decoder (through query or directly)
QueryCall == last.op \in {"query", "from_xml"} /\ last.field = "QueryResponse"

\* the body of the document the last call was given
GivenBody == Val(last.arg.doc.root)

\* C16: a line of a returned submission response has status Correcto or
\* AceptadoConErrores only if the XML carries exactly that EstadoRegistro
\* for that line, the overall status is Correcto or ParcialmenteCorrecto
\* only if EstadoEnvio carries it, and a call that raises returns no
\* response
C16_AcceptedOnlyIfExplicit ==
    SubmissionCall =>
        /\ last.out # Returned => reply = None
        /\ reply # None =>
            /\ last.arg.http = "200"
            /\ last.arg.doc.root # None
            /\ Len(Val(reply).items) = Len(GivenBody.lines)
            /\ \A i \in 1..Len(Val(reply).items) :
                  Val(reply).items[i].status \in {"Correcto", "AceptadoConErrores"}
                      => GivenBody.lines[i].estado = Some(Val(reply).items[i].status)
            /\ Val(reply).status \in {"Correcto", "ParcialmenteCorrecto"}
                  => GivenBody.estado = Some(Val(reply).status)

C16_Witness ==
    /\ last.op = "send"
    /\ reply # None
    /\ Val(reply).status = "ParcialmenteCorrecto"
    /\ Len(Val(reply).items) = 1
    /\ Val(reply).items[1].status = "AceptadoConErrores"

\* the document given to the last call is well-formed and contains the
\* root element the submission decoder expects
SubmissionRootPresent ==
    /\ last.arg.doc.wellformed
    /\ last.arg.doc.root # None
    /\ GivenBody.name = SubmissionRoot

\* the error raised for a SOAP fault or for a missing root element
ServerError(out) ==
    /\ out.raised = "AeatException"
    /\ out.message \in FaultTexts \cup {"Missing root element from response"}

\* C17: decoding a well-formed submission response raises a server error
\* exactly when the root element RespuestaRegFactuSistemaFacturacion is
\* absent, and the error carries the faultstring when a Fault is present;
\* a response that contains the root element never becomes a server error
C17_ServerErrorIffRootAbsent ==
    (SubmissionCall /\ last.op = "from_xml" /\ last.arg.doc.wellformed) =>
        /\ ServerError(last.out) <=> ~SubmissionRootPresent
        /\ (~SubmissionRootPresent /\ HasText(last.arg.doc.fault))
              => last.out.message = Val(last.arg.doc.fault)

\* the document given to the last call is well-formed, has no fault
\* string and contains the root element of the decoder that was run
DecodedBody ==
    /\ SubmissionCall \/ QueryCall
    /\ last.arg.http = "200"
    /\ last.arg.doc.wellformed
    /\ ~HasText(last.arg.doc.fault)
    /\ last.arg.doc.root # None
    /\ GivenBody.name = IF SubmissionCall THEN SubmissionRoot ELSE QueryRoot

\* a required element of a line is malformed or missing: an identifier
\* field without text, a date that is not day-month-year, an unknown status
MalformedLine(l, statuses) ==
    \/ ~HasText(l.issuer)
    \/ ~HasText(l.number)
    \/ ~HasText(l.date)
    \/ Val(l.date) \notin DayMonthYearTexts
    \/ HasText(l.estado) /\ Val(l.estado) \notin statuses

\* the previous-record date of a query record does not parse
MalformedPrevious(l) ==
    /\ l.previous # None
    /\ HasText(Val(l.previous).date)
    /\ Val(Val(l.previous).date) \notin DayMonthYearTexts

MalformedBody ==
    IF SubmissionCall
    THEN \/ HasText(GivenBody.wait) /\ Val(GivenBody.wait) \notin IntTexts
         \/ HasText(GivenBody.estado) /\ Val(GivenBody.estado) \notin ResponseStatusValues
         \/ \E i \in 1..Len(GivenBody.lines) :
               MalformedLine(GivenBody.lines[i], ItemStatusValues)
    ELSE \E i \in 1..Len(GivenBody.lines) :
               \/ MalformedLine(GivenBody.lines[i], QueryRecordStatusValues)
               \/ MalformedPrevious(GivenBody.lines[i])

\* the error the decoders raise themselves for a response they cannot decode
ParseError(out) ==
    /\ out.raised = "AeatException"
    /\ out.message \in {"Failed to parse XML response", "Invalid submitted at date",
                        "Invalid invoice issue date"}

\* C18: when a required element of a submission or query response is
\* malformed or missing, decoding fails with the structured parse error,
\* and no returned item carries the current time in place of its date
C18_MalformedRaisesParseError ==
    DecodedBody =>
        /\ MalformedBody => (ParseError(last.out) /\ reply = None)
        /\ reply # None =>
              \A i \in 1..Len(Val(reply).items) :
                  Val(reply).items[i].issue_date # CurrentTime

\* the part of C18 the decoders do satisfy: a submission line whose date
\* has text that is not day-month-year fails with the parse error
InvalidSubmissionDateRaises ==
    (DecodedBody /\ SubmissionCall /\ last.out = Returned) =>
        \A i \in 1..Len(GivenBody.lines) :
            HasText(GivenBody.lines[i].date)
                => Val(GivenBody.lines[i].date) \in DayMonthYearTexts

\* C19: a call to send or query performs at most one HTTP POST, and when
\* that POST fails the call raises, returns no response and has made no
\* further attempt
C19_AtMostOnePost ==
    last.op \in {"send", "query"} =>
        /\ posts <= 1
        /\ last.arg.http \in HttpFailures =>
              /\ last.out.raised = "AeatException"
              /\ reply = None
              /\ posts = 1

C19_Witness ==
    /\ last.op = "send"
    /\ last.arg.http = "Timeout"
    /\ posts = 1
    /\ last.out # Returned
    /\ reply = None


(***************************************************************************)
(* SpecCert: clients, their certificates and the temporary PEM files       *)
(***************************************************************************)
MaxStaged == 2

\* a temporary file, named after the client that created it
TempFile(c, n) == [owner |-> c, serial |-> n]

\* what a set_certificate call is given: a PEM path, a PKCS#12 bundle that
\* converts, one that cannot be read, or one whose PEM cannot be written
CertificateKinds == {"pem", "pfx", "pfx_unreadable", "pfx_unwritable"}

\* AeatClient.__init__
NewClient(c) ==
    /\ clients[c].life = "unborn"
    /\ clients' = [clients EXCEPT ![c].life = "alive"]
    /\ last' = Call("init", "", c, Returned)
    /\ UNCHANGED <<rec, line, now, chain, reply, posts, files, wire>>

\* AeatClient._convert_pfx_to_pem: the client's fields and the files on
\* disk after the conversion of a bundle of the given kind
convert_pfx_to_pem(client, c, kind, disk) ==
    LET f == TempFile(c, client.staged + 1)
    IN  IF kind = "pfx_unreadable"
        THEN [client |-> client, files |-> disk,
              out |-> Raise("AeatException", "Failed to read PKCS#12 certificate")]
        ELSE IF kind = "pfx_unwritable"
        THEN [client |-> [client EXCEPT !.staged = @ + 1], files |-> disk,
              out |-> Raise("AeatException", "Failed to write PEM file")]
        ELSE [client |-> [client EXCEPT !.staged = @ + 1,
                                        !.temp_cert_file = Some(f),
                                        !.certificate_path = Some(f)],
              files |-> disk \cup {f},
              out |-> Returned]

\* AeatClient.set_certificate
set_certificate(c, kind) ==
    /\ clients[c].life = "alive"
    /\ kind \in {"pfx", "pfx_unwritable"} => clients[c].staged < MaxStaged
    /\ LET named == [clients[c] EXCEPT !.certificate_path = Some(kind)]
           r == IF kind = "pem"
                THEN [client |-> named, files |-> files, out |-> Returned]
                ELSE convert_pfx_to_pem(named, c, kind, files)
       IN  /\ clients' = [clients EXCEPT ![c] = r.client]
           /\ files' = r.files
           /\ last' = Call("set_certificate", kind, c, r.out)
    /\ UNCHANGED <<rec, line, now, chain, reply, posts, wire>>

\* AeatClient.__del__: the files left on disk by the teardown of a client
del(client, disk) ==
    IF client.temp_cert_file # None /\ Val(client.temp_cert_file) \in disk
    THEN disk \ {Val(client.temp_cert_file)}
    ELSE disk

Teardown(c) ==
    /\ clients[c].life = "alive"
    /\ files' = del(clients[c], files)
    /\ clients' = [clients EXCEPT ![c].life = "gone"]
    /\ last' = Call("del", "", c, Returned)
    /\ UNCHANGED <<rec, line, now, chain, reply, posts, wire>>

InitCert ==
    /\ rec = None
    /\ line = None
    /\ last = Call("none", "", 0, Returned)
    /\ now = "winter"
    /\ chain = <<>>
    /\ ServiceIdle

NextCert ==
    \/ \E c \in ClientIds : NewClient(c)
    \/ \E c \in ClientIds : \E kind \in CertificateKinds : set_certificate(c, kind)
    \/ \E c \in ClientIds : Teardown(c)

SpecCert == InitCert /\ [][NextCert]_vars

\* C20: every temporary PEM file a client staged has been removed once the
\* client is torn down, whatever set_certificate calls were made, and a
\* teardown or a set_certificate call of one client never removes a file
\* staged by another client
C20_NoStagedFileOutlivesClient ==
    [][/\ \A f \in files' : clients'[f.owner].life # "gone"
       /\ \A f \in files \ files' : f.owner = last'.arg]_vars

(***************************************************************************)
(* SpecWire: one batch of records encoded by send or by build_record_xml   *)
(***************************************************************************)
MaxBatch == 2

\* AeatClient.build_record_xml: the RegistroFactura of a single record,
\* cut out of a request built with the default arguments
\* the RegistroFactura found in a built request
FindRegistroFactura(xml) ==
    IF xml.out # Returned THEN xml
    ELSE IF ~HasChild(Val(xml.value).kids[2].kids[1], "RegistroFactura")
    THEN Failure("ValueError", "Could not find RegistroFactura in generated XML")
    ELSE Result(Returned, Some(Child(Val(xml.value).kids[2].kids[1], "RegistroFactura")))

build_record_xml(representative, record, clock) ==
    FindRegistroFactura(build_xml_request(representative, <<record>>, FALSE, clock))

BuildRecordXml ==
    /\ last.op = "args"
    /\ Len(last.arg.records) = 1
    /\ LET r == build_record_xml(last.arg.representative, last.arg.records[1], now)
       IN  /\ wire' = r.value
           /\ last' = Call("build_record_xml", "", last.arg, r.out)
    /\ UNCHANGED <<rec, line, now, chain, reply, posts, clients, files>>

ForeignRecipient ==
    [name |-> Text("Acme GmbH", 9), country |-> "DE", type |-> "02",
     value |-> "DE123456789"]

\* registration records as the caller builds them, before sealing
WireRegistrations ==
    {BaseRegistration,
     [BaseRegistration EXCEPT !.hashed_at = TAware],
     [BaseRegistration EXCEPT !.invoice_id = Id1,
                              !.previous_invoice_id = Some(Id0),
                              !.previous_hash = Some(HexA),
                              !.correction = Some("S"),
                              !.previous_rejection = Some("X")],
     [BaseRegistration EXCEPT !.breakdown = <<ExemptLine(1000)>>,
                              !.total_tax_amount = Amt(0),
                              !.total_amount = Amt(1000)],
     [BaseRegistration EXCEPT !.invoice_type = "F1",
                              !.recipients = <<Recipient("Cliente", "B00000000")>>],
     [BaseRegistration EXCEPT !.invoice_type = "F1",
                              !.recipients = <<ForeignRecipient>>]}

\* records handed to the encoder: not sealed, or sealed on a host whose
\* clock was in either season when the fingerprint was computed
WireRecords ==
    {BaseRegistration}
    \cup {SealAt(r, s) : r \in WireRegistrations, s \in {"winter"}}
    \cup {SealAt(BaseRegistration, "summer")}
    \cup {SealAt(BaseCancellation, "winter")}

GoodDocument ==
    Document(TRUE, None,
             Some([name |-> SubmissionRoot, submitted |-> None, wait |-> Some("60"),
                   estado |-> Some("Correcto"), lines |-> <<GoodLine>>]))

\* the records that batches of several records are made of
BatchRecords ==
    {SealAt(BaseRegistration, "winter"),
     SealAt([BaseRegistration EXCEPT !.invoice_id = Id1,
                                     !.previous_invoice_id = Some(Id0),
                                     !.previous_hash = Some(HexA)], "winter")}

\* the empty batch, every record alone, and longer batches that may
\* repeat a record
Batches ==
    [1..0 -> WireRecords] \cup [1..1 -> WireRecords]
    \cup UNION {[1..n -> BatchRecords] : n \in 2..MaxBatch}

InitWire ==
    /\ rec = None
    /\ line = None
    /\ \E records \in Batches :
       \E representative \in {None, Some(Representative)} :
       \E incidencia \in {None, Some(FALSE), Some(TRUE)} :
          last = Call("args", "",
                      Submission(records, representative, incidencia, "200", GoodDocument),
                      Returned)
    /\ now \in Seasons
    /\ chain = <<>>
    /\ ServiceIdle

NextWire ==
    \/ Send
    \/ BuildRecordXml

SpecWire == InitWire /\ [][NextWire]_vars

\* the element that holds the Cabecera and the records of the request
\* that the last send posted
PostedBase == Val(wire).kids[2].kids[1]

\* the RegistroFactura elements of the request, in document order
PostedRecords == Children(PostedBase, "RegistroFactura")

\* the RegistroAlta or RegistroAnulacion inside a RegistroFactura
RecordElement(registro_factura) == registro_factura.kids[1]

\* the last call was a send that posted a request
Posted == last.op = "send" /\ wire # None

\* C21: the posted envelope contains exactly one RegistroFactura per record
\* of the batch, the i-th one carrying the invoice number and fingerprint
\* of the i-th record, so records are neither re-ordered nor de-duplicated
C21_OneRegistroFacturaPerRecordInOrder ==
    Posted =>
        /\ Len(PostedRecords) = Len(last.arg.records)
        /\ \A i \in 1..Len(PostedRecords) :
              LET e == RecordElement(PostedRecords[i])
                  r == last.arg.records[i]
              IN  /\ Child(Child(e, "IDFactura"), "NumSerieFactura").text
                        = Some(r.invoice_id.invoice_number)
                  /\ Child(e, "Huella").text = Some(r.hash)

C21_Witness ==
    /\ Posted
    /\ Len(last.arg.records) = 2
    /\ last.arg.records[1] = last.arg.records[2]
    /\ Len(PostedRecords) = 2
    /\ PostedRecords[1] = PostedRecords[2]


\* the last call encoded a batch of exactly one record
EncodedOne ==
    /\ last.op \in {"send", "build_record_xml"}
    /\ Len(last.arg.records) = 1

\* the RegistroAlta or RegistroAnulacion the last call built for that record
EncodedElement ==
    IF last.op = "send" THEN RecordElement(PostedRecords[1])
    ELSE RecordElement(Val(wire))

\* C22: encoding a valid CancellationRecord succeeds and yields a
\* RegistroAnulacion that carries IDFactura, Encadenamiento,
\* SistemaInformatico, FechaHoraHusoGenRegistro, TipoHuella and Huella and
\* no TipoFactura
C22_CancellationEncodes ==
    (/\ EncodedOne
     /\ IsCancellation(last.arg.records[1])
     /\ Validate(last.arg.records[1], now) = Ok) =>
        /\ wire # None
        /\ last.out.raised # "AttributeError"
        /\ EncodedElement.tag = "RegistroAnulacion"
        /\ \A t \in {"IDFactura", "Encadenamiento", "SistemaInformatico",
                     "FechaHoraHusoGenRegistro", "TipoHuella", "Huella"} :
              HasChild(EncodedElement, t)
        /\ ~HasChild(EncodedElement, "TipoFactura")


\* C23: every item of a decoded query response has is_first_record true
\* exactly when its Encadenamiento holds PrimerRegistro = S, and has
\* previous_record populated exactly when a RegistroAnterior block is
\* present, with the issuer, invoice number, issue date and fingerprint
\* given in that block
C23_ChainingDecodedAsGiven ==
    (QueryCall /\ reply # None) =>
        \A i \in 1..Len(Val(reply).items) :
            LET item == Val(reply).items[i]
                given == GivenBody.lines[i]
            IN  /\ item.is_first_record <=> given.first = Some("S")
                /\ item.previous_record # None <=> given.previous # None
                /\ given.previous # None =>
                      LET block == Val(given.previous)
                          prev == Val(item.previous_record)
                      IN  /\ prev.issuer_nif = block.issuer
                          /\ prev.invoice_number = block.number
                          /\ prev.hash = block.hash
                          /\ prev.issue_date =
                                IF block.date = None THEN None
                                ELSE Some(ParsedDate(Val(block.date)))


\* what the query decoder does satisfy: the same, for the blocks whose date
\* is absent or is day-month-year
ChainingDecodedWhenDateParses ==
    (QueryCall /\ reply # None) =>
        \A i \in 1..Len(Val(reply).items) :
            LET item == Val(reply).items[i]
                given == GivenBody.lines[i]
            IN  /\ item.is_first_record <=> given.first = Some("S")
                /\ item.previous_record # None <=> given.previous # None
                /\ (given.previous # None /\ ~MalformedPrevious(given)) =>
                      LET block == Val(given.previous)
                          prev == Val(item.previous_record)
                      IN  /\ prev.issuer_nif = block.issuer
                          /\ prev.invoice_number = block.number
                          /\ prev.hash = block.hash
                          /\ prev.issue_date =
                                IF block.date = None THEN None
                                ELSE Some(ParsedDate(Val(block.date)))


(***************************************************************************)
(* Order of the validation checks                                          *)
(***************************************************************************)
\* the errors the validators of one group of rules raise on a record:
\* 3 recipient, corrective and replaced-invoice rules, 4 correction and
\* rejection table, 5 total-amount rules, 6 chain-pair presence
GroupErrors(g, d) ==
    (CASE g = 3 -> validate_recipients(d) \cup validate_corrective_details(d)
                   \cup validate_replaced_invoices(d)
       [] g = 4 -> validate_correction_fields(d)
       [] g = 5 -> validate_totals(d)
       [] g = 6 -> validate_previous_invoice_consistency(d)) \ Ok

ViolatedGroups(d) == {g \in 3..6 : GroupErrors(g, d) # {}}

Earliest(gs) == CHOOSE g \in gs : \A h \in gs : g <= h

\* C24: when a registration record whose fields are well-formed violates
\* rules of several groups, the error reported is one of the earliest
\* violated group in the order recipient/corrective/replaced rules,
\* correction table, total-amount rules, chain-pair presence
C24_EarliestGroupReported ==
    (/\ last.op = "construct"
     /\ IsRegistration(last.arg)
     /\ last.out # "ok"
     /\ FieldErrors(last.arg) = Ok
     /\ ViolatedGroups(last.arg) # {}) =>
        last.out \in GroupErrors(Earliest(ViolatedGroups(last.arg)), last.arg)


\* the Cabecera of the request that the last send posted
PostedCabecera == Child(PostedBase, "Cabecera")

\* C25: in the posted header the RemisionVoluntaria/Incidencia = S block is
\* present iff the incident flag was passed as true, Representante is
\* present iff a representative is set, the header children come in the
\* order ObligadoEmision, Representante, RemisionVoluntaria, and the header
\* precedes every RegistroFactura
C25_IncidenciaBlockPlacement ==
    Posted =>
        /\ HasChild(PostedCabecera, "RemisionVoluntaria")
              <=> last.arg.incidencia = Some(TRUE)
        /\ HasChild(PostedCabecera, "RemisionVoluntaria") =>
              Child(PostedCabecera, "RemisionVoluntaria").kids
                  = << Leaf("Incidencia", Some("S")) >>
        /\ HasChild(PostedCabecera, "Representante")
              <=> last.arg.representative # None
        /\ Tags(PostedCabecera)
              = <<"ObligadoEmision">>
                \o OptionalKid(last.arg.representative # None, "Representante")
                \o OptionalKid(last.arg.incidencia = Some(TRUE), "RemisionVoluntaria")
        /\ Tags(PostedBase)
              = <<"Cabecera">> \o [i \in 1..Len(last.arg.records) |-> "RegistroFactura"]

C25_Witness ==
    /\ Posted
    /\ last.arg.representative # None
    /\ last.arg.incidencia = Some(TRUE)
    /\ Len(PostedRecords) = 2
    /\ Tags(PostedCabecera) = <<"ObligadoEmision", "Representante", "RemisionVoluntaria">>


\* the last call built the RegistroAlta of a single registration record
EncodedRegistration ==
    /\ EncodedOne
    /\ wire # None
    /\ IsRegistration(last.arg.records[1])

\* the DetalleDesglose elements of that RegistroAlta, in document order
EncodedDetails == Children(Child(EncodedElement, "Desglose"), "DetalleDesglose")

\* C26: the DetalleDesglose of every breakdown line contains TipoImpositivo
\* iff the line has a tax rate and CuotaRepercutida iff it has a tax
\* amount, its children being in the order Impuesto, ClaveRegimen,
\* CalificacionOperacion, TipoImpositivo, BaseImponibleOimporteNoSujeto,
\* CuotaRepercutida
C26_RateAndTaxElementsOnlyWhenPresent ==
    EncodedRegistration =>
        /\ Len(EncodedDetails) = Len(last.arg.records[1].breakdown)
        /\ \A i \in 1..Len(EncodedDetails) :
              LET detail == last.arg.records[1].breakdown[i]
              IN  Tags(EncodedDetails[i])
                     = <<"Impuesto", "ClaveRegimen", "CalificacionOperacion">>
                       \o OptionalKid(detail.tax_rate # None, "TipoImpositivo")
                       \o <<"BaseImponibleOimporteNoSujeto">>
                       \o OptionalKid(detail.tax_amount # None, "CuotaRepercutida")


(***************************************************************************)
(* The fingerprint over time                                               *)
(***************************************************************************)
\* C27: as long as the record is not modified, calculate_hash returns the
\* same value at whatever moment it is called, so a sealed record stays
\* sealed while the host's clock advances
C27_HashStableOverTime ==
    [][(rec # None /\ rec' = rec) =>
          /\ calculate_hash(Val(rec), now') = calculate_hash(Val(rec), now)
          /\ Sealed(Val(rec), now) => Sealed(Val(rec), now')]_vars


(***************************************************************************)
(* The fingerprint on the wire                                             *)
(***************************************************************************)
\* the last call serialized its records
Encoded == last.op \in {"send", "build_record_xml"} /\ wire # None

\* the RegistroAlta / RegistroAnulacion elements the last call built, in
\* the order of the records it was given
EncodedElements ==
    IF last.op = "send"
    THEN [i \in 1..Len(PostedRecords) |-> RecordElement(PostedRecords[i])]
    ELSE <<RecordElement(Val(wire))>>

\* the fingerprint a receiver computes for record r from the generation
\* timestamp written in element e
FingerprintOnWire(r, e) ==
    LET dt_str == Val(Child(e, "FechaHoraHusoGenRegistro").text)
    IN  IF IsRegistration(r)
        THEN sha256(RegistrationPayload(r, dt_str))
        ELSE sha256(CancellationPayload(r, dt_str))

\* C28: for every sealed record encoded into a request, the fingerprint
\* recomputed with the FechaHoraHusoGenRegistro written to the XML equals
\* the transmitted Huella, whenever sealing and encoding took place
C28_WireTimestampIsTheHashedOne ==
    Encoded =>
        \A i \in 1..Len(EncodedElements) :
            LET r == last.arg.records[i]
                e == EncodedElements[i]
            IN  r.hash # EmptyStr =>
                    Child(e, "Huella").text = Some(FingerprintOnWire(r, e))

\* C29: every record that send or build_record_xml serializes carries a
\* non-empty Huella equal to its recomputed fingerprint; a record whose
\* hash is still empty is refused and nothing is encoded for it
C29_NoUnsealedRecordOnWire ==
    /\ Encoded =>
          \A i \in 1..Len(EncodedElements) :
              LET r == last.arg.records[i]
                  e == EncodedElements[i]
              IN  /\ Child(e, "Huella").text # Some(EmptyStr)
                  /\ Child(e, "Huella").text = Some(calculate_hash(r, now))
    /\ (/\ last.op \in {"send", "build_record_xml"}
        /\ \E i \in 1..Len(last.arg.records) : last.arg.records[i].hash = EmptyStr)
          => (wire = None /\ last.out # Returned)

\* C30: encoding succeeds for every RegistrationRecord the validator
\* accepts, whatever the kind of its recipients, and each recipient is
\* written as an IDDestinatario
C30_EveryAcceptedRecipientEncodes ==
    (/\ EncodedOne
     /\ IsRegistration(last.arg.records[1])
     /\ Validate(last.arg.records[1], now) = Ok) =>
        /\ last.out = Returned
        /\ wire # None
        /\ LET r == last.arg.records[1]
           IN  r.recipients # <<>> =>
                   /\ HasChild(EncodedElement, "Destinatarios")
                   /\ Len(Children(Child(EncodedElement, "Destinatarios"),
                                   "IDDestinatario")) = Len(r.recipients)

\* C30 for recipients identified by NIF: the record is encoded
NifRecipientsEncode ==
    (/\ EncodedOne
     /\ IsRegistration(last.arg.records[1])
     /\ Validate(last.arg.records[1], now) = Ok
     /\ \A k \in 1..Len(last.arg.records[1].recipients) :
           HasAttr(last.arg.records[1].recipients[k], "nif")) =>
        last.out = Returned /\ wire # None

====
